---- MODULE Spec2Model ----
(***************************************************************************)
(* Model of the email PDF processor (src/email-poller.js): the batch loop  *)
(* of processEmail and the per-PDF pipeline processSinglePdf with its      *)
(* validation retry and its rate-limit retry.                              *)
(*                                                                         *)
(* One email with numPdfs PDF attachments is processed.  Every `await` of  *)
(* the pipeline is a suspension point, so each pipeline is a small state   *)
(* machine (pc) and the pipelines of one batch interleave.  The oracle     *)
(* (LLM API), the local disk and the NetSuite RESTlet are the environment: *)
(* what they answer is chosen nondeterministically.                        *)
(***************************************************************************)
EXTENDS Integers, Sequences, FiniteSets, TLC

\* ---------------------------------------------------------------- bounds
\* Largest number of PDF attachments of the email.
MaxPdfs == 7
\* Largest number of disk errors (savePdf / saveResult throwing) in one run.
MaxDiskErrors == 4

\* ------------------------------------------------------ program constants
BATCH_SIZE == 3
BATCH_DELAY_MS == 5000
RETRY_ATTEMPTS == 3

VARIABLES
    config,          \* CONFIG.output.* and CONFIG.netsuite.enabled
    numPdfs,         \* pdfAttachments.length
    loop,            \* position of the batch loop
    i,               \* the for loop's index i (0-based start of the batch)
    timer,           \* delay of the batch loop's pending setTimeout, ms (0: none)
    pc,              \* per PDF: position of its processSinglePdf pipeline
    retryCount,      \* per PDF: the retryCount argument of the running call
    extractedData,   \* per PDF: the local extractedData
    delaySeconds,    \* per PDF: delay of the pending backoff timer (0: none)
    outcome,         \* per PDF: the value processSinglePdf returned
    processedCount,
    successCount,
    failCount,
    retryCalls,      \* per PDF: the corrective oracle calls made, with their results
    resultFiles,     \* per PDF: what saveResult wrote to disk
    netsuite,        \* per PDF: what the RESTlet stored
    diskErrorsLeft,  \* disk errors the environment may still raise
    oracleOutcomes,  \* per PDF: what the oracle may answer for it
    diskMessages,    \* per PDF: the messages of the disk errors saving it may raise
    sinkOutcomes,    \* per PDF: whether the RESTlet may store it, fail, or both
    startedIn,       \* per PDF: the batch numbers whose batch.map started it
    validationFailures \* per PDF: its extractions that failed validateBillNumbers

batchVars == << config, numPdfs, loop, i, timer, pc, retryCount, extractedData,
                delaySeconds, outcome, processedCount, successCount, failCount,
                retryCalls, resultFiles, netsuite, diskErrorsLeft, oracleOutcomes,
                diskMessages, sinkOutcomes, startedIn, validationFailures >>

Pdfs == 1 .. numPdfs

\* The state of the process around the batch loop: the rule list, the config
\* refresh, the poll cycles on the mailbox connection and the body handlers
\* of the messages they fetch.
VARIABLES
    processors,      \* CONFIG.processors (= EMAIL_PROCESSORS), the rule list
    refreshing,      \* fetchNetSuiteConfigs calls awaiting axios.get
    lastRefresh,     \* the last fetchNetSuiteConfigs call that got its answer
    lastMatch,       \* the last matchEmailProcessor call: email, list read, result
    complete,        \* the rule list as of the last assignment that completed
    firstCall,       \* the first processPdfWithClaude call for a PDF of the matched email
    mailbox,         \* per message of the mailbox: the email and whether it is seen
    cyclePc,         \* per checkForNewEmails call: its position
    results,         \* per checkForNewEmails call: the seqnos imap.search gave
    idx,             \* per checkForNewEmails call: position of the for loop in results
    emailPromise,    \* per checkForNewEmails call: the awaited processEmail (fetch sent, message emitted)
    handler,         \* per call and message: the body handler's position and batch
    process          \* the Node process: running, or exited with a code

configVars == << processors, refreshing, lastRefresh, lastMatch, complete,
                 firstCall >>
pollVars == << mailbox, cyclePc, results, idx, emailPromise, handler, process >>

\* The functions and scripts looked at on their own: a call of
\* validateBillNumbers from processSinglePdf.
VARIABLES
    validateCall,    \* the parsed extractedData and the retryCount of the call
    validationResult, \* what validateBillNumbers returned and the branch taken on it
    oracleResponse,  \* a response text of the oracle and the object it was made from
    parsedResponse   \* what the JSON extraction of the poller and of the scripts gave for it

pureVars == << validateCall, validationResult, oracleResponse,
               parsedResponse >>

\* The transaction validation script (transaction_validation_scheduled.js) and
\* the transactions it validates.
VARIABLES
    transactions,    \* per transaction: its validated, validation_pass and validation_fail fields
    execution,       \* the running execute(): its parameters, work list, position, results
    executions       \* the executions of the script started so far

validationVars == << transactions, execution, executions >>

\* The receiver RESTlet (node_pdf_receiver_restlet.js) and the file cabinet.
VARIABLES
    scriptParameters, \* custscript_marcone_pdf_folder and custscript_marcone_json_folder
    fileCabinet,     \* the files saved, in the order of their ids
    posts            \* the POST requests served: body, time, response

restletVars == << scriptParameters, fileCabinet, posts >>

\* The retry script (retry_claude_json_scheduled.js) and the PDFs put in the
\* retry folder.
VARIABLES
    pdfFolder,       \* per PDF: the folder it is in
    jsonFiles,       \* per PDF: the JSON files saved for it
    retryExecution,  \* the running execute(): work list, position, counters
    retryExecutions, \* the executions of the script started so far
    retryResults     \* what processPDFFile returned, call after call

retryVars == << pdfFolder, jsonFiles, retryExecution, retryExecutions,
                retryResults >>
scriptVars == << pureVars, validationVars, restletVars, retryVars >>
vars == << batchVars, configVars, pollVars, scriptVars >>

\* ------------------------------------------------------------ environment

\* Line items as the oracle may return them: the bill number is a sequence of
\* characters (empty: missing or empty string).
Digits == {"0", "1", "2", "3", "4", "5", "6", "7", "8", "9"}
ValidDoc == [lineItems |->
    << [nardaNumber |-> "NF",
        originalBillNumber |-> <<"6", "6", "8", "1", "1", "0", "2", "6">>] >>]
InvalidDoc == [lineItems |->
    << [nardaNumber |-> "NF",
        originalBillNumber |-> <<"6", "6", "8", "1", "1", "0">>] >>]
NoDoc == [lineItems |-> << >>]

\* The text of a response: JSON text of a document, or text that is not JSON.
Analyses == { [parseable |-> TRUE, json |-> ValidDoc],
              [parseable |-> TRUE, json |-> InvalidDoc],
              [parseable |-> FALSE, json |-> NoDoc] }

\* Messages of the errors the API client and the file system raise.  A file
\* system error names the path it failed on, which holds the sanitized file
\* name of the PDF or the configured directory, so it can contain
\* rate_limit_error.
OracleErrorMessages == { "429 rate_limit_error", "529 overloaded_error" }
DiskErrorMessages == { "ENOSPC: no space left on device",
                       "EACCES: permission denied, open 'rate_limit_error.pdf'" }

\* error.message.includes('rate_limit_error')
includesRateLimitError(message) ==
    message \in { "429 rate_limit_error",
                  "EACCES: permission denied, open 'rate_limit_error.pdf'" }

\* What anthropic.messages.create does: resolve with a text, or throw.
OracleOutcomes ==
    [ threw : {FALSE}, analysis : Analyses, message : {""} ]
    \cup [ threw : {TRUE}, analysis : {[parseable |-> FALSE, json |-> NoDoc]},
           message : OracleErrorMessages ]

\* The answer for a PDF that gives no trouble: an extraction that validates
\* (and saving it raises no disk error, the RESTlet stores it).
PlainOracleOutcomes ==
    { o \in OracleOutcomes :
        ~o.threw /\ o.analysis = [parseable |-> TRUE, json |-> ValidDoc] }

\* ---------------------------------------------------------- pure functions

\* validateBillNumbers: valid if the data has no lineItems; else the entries
\* whose bill number is empty, not 8 long or not all digits, with the 0-based
\* index; reason lists them with the 1-based line number.
\* (Variant: the length test alone.)
IsInvalidBillNumberByLength(billNumber) ==
    Len(billNumber) # 8
IsInvalidBillNumber(billNumber) ==
    \/ Len(billNumber) = 0
    \/ Len(billNumber) # 8
    \/ \E j \in 1 .. Len(billNumber) : billNumber[j] \notin Digits

validateBillNumbers(data) ==
    IF "lineItems" \notin DOMAIN data
    THEN [valid |-> TRUE, reason |-> << >>, invalidItems |-> << >>]
    ELSE
    LET items == data.lineItems
        indices == SelectSeq([n \in 1 .. Len(items) |-> n],
                       LAMBDA n : IsInvalidBillNumber(items[n].originalBillNumber))
        invalidItems == [m \in 1 .. Len(indices) |->
            [index |-> indices[m] - 1,
             narda |-> items[indices[m]].nardaNumber,
             billNumber |-> items[indices[m]].originalBillNumber,
             length |-> Len(items[indices[m]].originalBillNumber)]]
        details == [m \in 1 .. Len(invalidItems) |->
            [line |-> invalidItems[m].index + 1,
             narda |-> invalidItems[m].narda,
             billNumber |-> invalidItems[m].billNumber,
             length |-> invalidItems[m].length]]
    IN  IF Len(invalidItems) > 0
        THEN [valid |-> FALSE, reason |-> details, invalidItems |-> invalidItems]
        ELSE [valid |-> TRUE, reason |-> << >>, invalidItems |-> << >>]

\* A prompt: the corrective preamble (if any) with the validator's reason,
\* then the extraction instructions.  customPrompt = null is NoPrompt.
NoPrompt == [critical |-> FALSE, reason |-> << >>, instructions |-> ""]
MarconePrompt == [critical |-> FALSE, reason |-> << >>,
                  instructions |-> "MARCONE CREDIT MEMO EXTRACTION"]

\* createExtractionPrompt(pdf.filename): the file calls it once and neither
\* defines nor imports it, so evaluating the call throws a ReferenceError,
\* inside the try whose catch logs a parse problem and goes on.  The code
\* after it (the corrective call, lines 667-691) is kept in Extract and
\* AfterRetry as written, though nothing reaches it.
createExtractionPrompt ==
    [threw |-> TRUE, value |-> ""]

\* const retryPrompt = `CRITICAL: ... ${reason} ...` + createExtractionPrompt(...)
retryPrompt(reason) ==
    IF createExtractionPrompt.threw
    THEN [threw |-> TRUE, prompt |-> NoPrompt]
    ELSE [threw |-> FALSE,
          prompt |-> [critical |-> TRUE, reason |-> reason,
                      instructions |-> createExtractionPrompt.value]]

\* processPdfWithClaude: the prompt sent is customPrompt || the built-in one;
\* every error of the API call is caught and returned as success: false.
PromptSent(customPrompt) ==
    IF customPrompt.instructions # "" THEN customPrompt ELSE MarconePrompt

processPdfWithClaude(oracle, customPrompt) ==
    IF oracle.threw
    THEN [success |-> FALSE, analysis |-> oracle.analysis, error |-> oracle.message,
          prompt |-> PromptSent(customPrompt)]
    ELSE [success |-> TRUE, analysis |-> oracle.analysis, error |-> "",
          prompt |-> PromptSent(customPrompt)]

\* The fence stripping and JSON.parse of the response text: the parsed object,
\* or a SyntaxError.
ParseAnalysis(analysis) ==
    [threw |-> ~analysis.parseable, data |-> analysis.json]

\* extractedData: null, or the parsed object, tagged with the oracle call of
\* the document's current processSinglePdf call it came from (1: the first
\* call, 2: the corrective call).
NullData == [isNull |-> TRUE, lineItems |-> << >>, attempt |-> 0]
Data(doc, attempt) == [isNull |-> FALSE, lineItems |-> doc.lineItems, attempt |-> attempt]

\* (Variant: the corrective call made on every failed validation.)
CorrectiveEveryEntry(validation, rc) ==
    ~validation.valid
\* Whether the corrective oracle call is reached: validation failed, this is
\* the call with retryCount 0, and the retry prompt could be built.
CorrectiveCallReached(validation, rc) ==
    /\ ~validation.valid
    /\ rc = 0
    /\ ~retryPrompt(validation.reason).threw

\* The data kept after a corrective call: the retry's data when it passes
\* validation, the original extraction otherwise (also when the retry call
\* failed or its text did not parse).
AfterRetry(first, retryResult) ==
    IF /\ retryResult.success
       /\ ~ParseAnalysis(retryResult.analysis).threw
       /\ validateBillNumbers(ParseAnalysis(retryResult.analysis).data).valid
    THEN Data(ParseAnalysis(retryResult.analysis).data, 2)
    ELSE first

\* The success branch of processSinglePdf up to saveResult: parse, validate,
\* and the validation retry.  retryCalls: the corrective calls made.
Extract(result, rc, oracle2) ==
    LET parsed == ParseAnalysis(result.analysis)
        validation == validateBillNumbers(parsed.data)
        retryResult == processPdfWithClaude(oracle2, retryPrompt(validation.reason).prompt)
    IN  IF parsed.threw
        THEN [extractedData |-> NullData, retryCalls |-> << >>]
        ELSE IF CorrectiveCallReached(validation, rc)
        THEN [extractedData |-> AfterRetry(Data(parsed.data, 1), retryResult),
              retryCalls |-> << retryResult >>]
        ELSE [extractedData |-> Data(parsed.data, 1), retryCalls |-> << >>]

\* Whether the extraction of a successful first call failed validation.
FailedValidation(result) ==
    /\ result.success
    /\ ~ParseAnalysis(result.analysis).threw
    /\ ~validateBillNumbers(ParseAnalysis(result.analysis).data).valid

\* ------------------------------------------------------- rules and emails

\* Strings that are searched or rewritten are sequences of characters.
UpperCaseLetters ==
    << "A", "B", "C", "D", "E", "F", "G", "H", "I", "J", "K", "L", "M",
       "N", "O", "P", "Q", "R", "S", "T", "U", "V", "W", "X", "Y",
       "Z" >>
LowerCaseLetters ==
    << "a", "b", "c", "d", "e", "f", "g", "h", "i", "j", "k", "l", "m",
       "n", "o", "p", "q", "r", "s", "t", "u", "v", "w", "x", "y",
       "z" >>
DigitCharacters == << "0", "1", "2", "3", "4", "5", "6", "7", "8", "9" >>

Range(s) == { s[n] : n \in 1 .. Len(s) }
UpperCase == Range(UpperCaseLetters)
Alnum == Range(LowerCaseLetters) \cup Range(DigitCharacters)

\* String.prototype.toLowerCase
LowerCaseOf(c) ==
    IF c \in UpperCase
    THEN LowerCaseLetters[CHOOSE n \in 1 .. Len(UpperCaseLetters) : UpperCaseLetters[n] = c]
    ELSE c
toLowerCase(s) == [n \in 1 .. Len(s) |-> LowerCaseOf(s[n])]

\* String.prototype.includes
includes(s, t) ==
    \E p \in 0 .. (Len(s) - Len(t)) : SubSeq(s, p + 1, p + Len(t)) = t

\* .replace(/[^a-z0-9]+/g, '_'): every run of other characters becomes one _.
IsAlnum(c) == c \in Alnum
RECURSIVE replaceNonAlnum(_, _)
replaceNonAlnum(s, inRun) ==
    IF s = << >> THEN << >>
    ELSE IF IsAlnum(Head(s)) THEN << Head(s) >> \o replaceNonAlnum(Tail(s), FALSE)
    ELSE IF inRun THEN replaceNonAlnum(Tail(s), TRUE)
    ELSE << "_" >> \o replaceNonAlnum(Tail(s), TRUE)

\* EMAIL_PROCESSORS as the file defines it: the Marcone rule, enabled unless
\* MARCONE_ENABLED is 'false'.  It has no configId.
MarconeProcessor(enabled) ==
    [name |-> << "m", "a", "r", "c", "o", "n", "e", "_", "c", "r", "e", "d", "i",
              "t", "s" >>,
     enabled |-> enabled,
     criteria |-> [from |->
                       << "n", "o", "-", "r", "e", "p", "l", "i", "e", "s", "@", "m", "a",
                          "r", "c", "o", "n", "e", ".", "c", "o",
                          "m" >>,
                   subjectContains |->
                       << "C", "r", "e", "d", "i", "t", "s", " ", "p", "r", "o", "c", "e",
                          "s", "s", "e", "d", " ", "b", "y", " ",
                          "M", "a", "r", "c", "o", "n", "e", " ",
                          "f", "o", "r", " ", "2", "6", "8", "4",
                          "0", "0", "0" >>],
     netsuite |-> [pdfFolderId |-> "MARCONE_PDF_FOLDER_ID",
                   jsonFolderId |-> "MARCONE_JSON_FOLDER_ID"],
     claudePrompt |-> "marcone",
     configId |-> "undefined"]
EMAIL_PROCESSORS(enabled) == << MarconeProcessor(enabled) >>

\* What matchEmailProcessor returns: null, or the processor.
NullProcessor ==
    [name |-> << >>, enabled |-> FALSE,
     criteria |-> [from |-> << >>, subjectContains |-> << >>],
     netsuite |-> [pdfFolderId |-> "", jsonFolderId |-> ""],
     claudePrompt |-> "", configId |-> ""]
NoMatch == [isNull |-> TRUE, processor |-> NullProcessor]
Matched(processor) == [isNull |-> FALSE, processor |-> processor]

\* email.from?.text?.toLowerCase() || email.from?.value?.[0]?.address?.toLowerCase() || ''
\* (a missing or empty field is the empty sequence)
fromAddress(email) ==
    IF toLowerCase(email.fromText) # << >> THEN toLowerCase(email.fromText)
    ELSE toLowerCase(email.fromValueAddress)

\* matchEmailProcessor: the loop over CONFIG.processors from position n on.
RECURSIVE matchFrom(_, _, _)
matchFrom(list, email, n) ==
    IF n > Len(list) THEN NoMatch
    ELSE IF ~list[n].enabled THEN matchFrom(list, email, n + 1)
    ELSE LET fromMatches ==
                 includes(fromAddress(email), toLowerCase(list[n].criteria.from))
             subjectMatches ==
                 includes(email.subject, list[n].criteria.subjectContains)
         IN  IF fromMatches /\ subjectMatches THEN Matched(list[n])
             ELSE matchFrom(list, email, n + 1)

\* (Variant: the list read from its end, so that the last match wins.)
matchLastProcessor(list, email) ==
    matchFrom([n \in 1 .. Len(list) |-> list[Len(list) + 1 - n]], email, 1)
matchEmailProcessor(list, email) == matchFrom(list, email, 1)

\* ------------------------------------------------------------------ state

\* CONFIG: the defaults (nothing saved, no upload), or everything enabled.
Configs == { [saveProcessedPdfs |-> b, saveResults |-> b, netsuiteEnabled |-> b] :
             b \in BOOLEAN }

\* An email as simpleParser gives it: the sender's text and address and the
\* subject (empty: missing).
NoEmail == [fromText |-> << >>, fromValueAddress |-> << >>, subject |-> << >>]

\* No fetchNetSuiteConfigs call has been answered, no email matched.
NoRefresh ==
    [kind |-> "none", rejected |-> FALSE,
     response |-> [threw |-> TRUE,
                   data |-> [isNull |-> TRUE, success |-> FALSE,
                             hasConfigs |-> FALSE, configs |-> << >>]]]
NoMatchYet ==
    [matched |-> FALSE, email |-> NoEmail, observed |-> << >>,
     completeThen |-> << >>, result |-> NoMatch, skipped |-> FALSE]
NoFirstCall == [made |-> FALSE, prompt |-> NoPrompt]

\* The rule list of a process whose config refresh is not looked at: the
\* hardcoded EMAIL_PROCESSORS, no refresh under way.
ConfigAtRest ==
    /\ processors = EMAIL_PROCESSORS(TRUE)
    /\ complete = EMAIL_PROCESSORS(TRUE)
    /\ refreshing = 0
    /\ lastRefresh = NoRefresh
    /\ lastMatch = NoMatchYet
    /\ firstCall = NoFirstCall

\* The process is running; inFlight is the number of item pipelines that were
\* in flight when it exited.
Running == [state |-> "running", code |-> 0, inFlight |-> 0]
Exited(code, inFlight) == [state |-> "exited", code |-> code, inFlight |-> inFlight]

\* No poll cycle is looked at: the mailbox connection is idle.
PollAtRest ==
    /\ mailbox = << >>
    /\ cyclePc = << >>
    /\ results = << >>
    /\ idx = << >>
    /\ emailPromise = << >>
    /\ handler = << >>
    /\ process = Running

\* validateBillNumbers is not looked at on its own.
NoValidateCall == [extractedData |-> NoDoc, retryCount |-> 0]
NotValidated ==
    [called |-> FALSE,
     result |-> [valid |-> TRUE, reason |-> << >>, invalidItems |-> << >>],
     branch |-> "none"]
NoJson == [type |-> "null", chars |-> << >>, members |-> << >>]
NoResponse == [object |-> NoJson, suffix |-> << >>, fenced |-> FALSE, text |-> << >>]
SyntaxError == [threw |-> TRUE, value |-> NoJson]
NotParsed == [called |-> FALSE, poller |-> SyntaxError, script |-> SyntaxError]
PureAtRest ==
    /\ validateCall = NoValidateCall
    /\ validationResult = NotValidated
    /\ oracleResponse = NoResponse
    /\ parsedResponse = NotParsed

\* The validation script is not deployed: no transaction, no execution.
NoSummary ==
    [totalValidated |-> 0, passed |-> 0, failed |-> 0, errors |-> 0,
     criticalIssues |-> 0]
NoExecution ==
    [pc |-> "idle", autoFlagIssues |-> FALSE, transactionsToValidate |-> << >>,
     i |-> 0, validationResults |-> << >>, summary |-> NoSummary]
ValidationAtRest ==
    /\ transactions = << >>
    /\ execution = NoExecution
    /\ executions = 0

\* The RESTlet has served no request.
RestletAtRest ==
    /\ scriptParameters = [pdfFolder |-> "", jsonFolder |-> ""]
    /\ fileCabinet = << >>
    /\ posts = << >>

\* The retry script is not deployed: no PDF in the retry folder, no execution.
NoRetryExecution ==
    [pc |-> "idle", pdfFiles |-> << >>, i |-> 0, processedCount |-> 0,
     errorCount |-> 0]
RetryAtRest ==
    /\ pdfFolder = << >>
    /\ jsonFiles = << >>
    /\ retryExecution = NoRetryExecution
    /\ retryExecutions = 0
    /\ retryResults = << >>

ScriptsAtRest ==
    /\ PureAtRest
    /\ ValidationAtRest
    /\ RestletAtRest
    /\ RetryAtRest

\* The state when the body handler of processEmail has found the PDF
\* attachments and reaches the batch loop.  One PDF of the email, at any
\* position, is the one the environment may trouble in every way.
Init ==
    /\ config \in Configs
    /\ numPdfs \in 1 .. MaxPdfs
    /\ diskErrorsLeft = MaxDiskErrors
    /\ \E troubled \in Pdfs :
         /\ oracleOutcomes = [k \in Pdfs |->
                IF k = troubled THEN OracleOutcomes ELSE PlainOracleOutcomes]
         /\ diskMessages = [k \in Pdfs |->
                IF k = troubled THEN DiskErrorMessages ELSE { }]
         /\ sinkOutcomes = [k \in Pdfs |->
                IF k = troubled THEN BOOLEAN ELSE {TRUE}]
    /\ loop = "for"
    /\ i = 0
    /\ timer = 0
    /\ pc = [k \in Pdfs |-> "notStarted"]
    /\ retryCount = [k \in Pdfs |-> 0]
    /\ extractedData = [k \in Pdfs |-> NullData]
    /\ delaySeconds = [k \in Pdfs |-> 0]
    /\ outcome = [k \in Pdfs |-> [returned |-> FALSE, success |-> FALSE, error |-> ""]]
    /\ processedCount = 0
    /\ successCount = 0
    /\ failCount = 0
    /\ retryCalls = [k \in Pdfs |-> << >>]
    /\ resultFiles = [k \in Pdfs |-> << >>]
    /\ netsuite = [k \in Pdfs |-> << >>]
    /\ startedIn = [k \in Pdfs |-> << >>]
    /\ validationFailures = [k \in Pdfs |-> 0]
    /\ ConfigAtRest
    /\ PollAtRest
    /\ ScriptsAtRest

\* (Variant: a slice one PDF too long.)
BatchOneMore(start) == { k \in Pdfs : start < k /\ k <= start + BATCH_SIZE + 1 }
\* pdfAttachments.slice(i, i + BATCH_SIZE), as 1-based positions.
Batch(start) == { k \in Pdfs : start < k /\ k <= start + BATCH_SIZE }

\* Math.floor(i / BATCH_SIZE) + 1 and Math.ceil(length / BATCH_SIZE)
batchNum(start) == (start \div BATCH_SIZE) + 1
totalBatches == (numPdfs + BATCH_SIZE - 1) \div BATCH_SIZE

\* ---------------------------------------------------------- the batch loop

\* One iteration of the for loop up to its await: batch.map calls
\* processSinglePdf for every PDF of the slice, each running to its first
\* await (savePdf), then the loop awaits Promise.allSettled.
StartBatch ==
    /\ loop = "for"
    /\ i < numPdfs
    /\ pc' = [k \in Pdfs |-> IF k \in Batch(i) THEN "savePdf" ELSE pc[k]]
    /\ retryCount' = [k \in Pdfs |-> IF k \in Batch(i) THEN 0 ELSE retryCount[k]]
    /\ startedIn' = [k \in Pdfs |->
          IF k \in Batch(i) THEN Append(startedIn[k], batchNum(i)) ELSE startedIn[k]]
    /\ loop' = "allSettled"
    /\ UNCHANGED << config, numPdfs, i, timer, extractedData,
                    delaySeconds, outcome, processedCount, successCount,
                    failCount, retryCalls, resultFiles, netsuite, diskErrorsLeft,
                    oracleOutcomes, diskMessages, sinkOutcomes,
                    validationFailures >>
    /\ UNCHANGED << configVars, pollVars, scriptVars >>

\* (Variant: the batch taken as settled with its first settled promise.)
AnySettled(start) ==
    \E k \in Batch(start) : pc[k] \in {"returned", "rejected"}
\* Whether Promise.allSettled of the batch resolves: every promise of the
\* batch is settled (fulfilled, or rejected, which no call of
\* processSinglePdf is).
AllSettled(start) ==
    \A k \in Batch(start) : pc[k] \in {"returned", "rejected"}

\* The batch is settled: sleep BATCH_DELAY_MS if PDFs remain, else leave the
\* loop.
BatchSettled ==
    /\ loop = "allSettled"
    /\ AllSettled(i)
    /\ IF i + BATCH_SIZE < numPdfs
       THEN /\ loop' = "delay"
            /\ timer' = BATCH_DELAY_MS
            /\ i' = i
       ELSE /\ loop' = "done"
            /\ timer' = 0
            /\ i' = i + BATCH_SIZE
    /\ UNCHANGED << config, numPdfs, pc, retryCount, extractedData,
                    delaySeconds, outcome, processedCount, successCount,
                    failCount, retryCalls, resultFiles, netsuite, diskErrorsLeft,
                    oracleOutcomes, diskMessages, sinkOutcomes, startedIn,
                    validationFailures >>
    /\ UNCHANGED << configVars, pollVars, scriptVars >>

\* The delay between batches has passed: i += BATCH_SIZE.
DelayDone ==
    /\ loop = "delay"
    /\ timer' = 0
    /\ i' = i + BATCH_SIZE
    /\ loop' = "for"
    /\ UNCHANGED << config, numPdfs, pc, retryCount, extractedData,
                    delaySeconds, outcome, processedCount, successCount,
                    failCount, retryCalls, resultFiles, netsuite, diskErrorsLeft,
                    oracleOutcomes, diskMessages, sinkOutcomes, startedIn,
                    validationFailures >>
    /\ UNCHANGED << configVars, pollVars, scriptVars >>

\* ------------------------------------------------------- processSinglePdf

\* return { success: true, ... } after successCount++, processedCount++.
Succeed(k) ==
    /\ successCount' = successCount + 1
    /\ processedCount' = processedCount + 1
    /\ failCount' = failCount
    /\ outcome' = [outcome EXCEPT ![k] = [returned |-> TRUE, success |-> TRUE, error |-> ""]]
    /\ pc' = [pc EXCEPT ![k] = "returned"]
    /\ delaySeconds' = delaySeconds
    /\ retryCount' = retryCount

\* (Variant: the failure thrown out of processSinglePdf, its promise rejected.)
FailRejects(k, message) ==
    /\ pc' = [pc EXCEPT ![k] = "rejected"]
    /\ UNCHANGED << failCount, processedCount, successCount, outcome,
                    delaySeconds, retryCount >>
\* return { success: false, error } after failCount++, processedCount++.
Fail(k, message) ==
    /\ failCount' = failCount + 1
    /\ processedCount' = processedCount + 1
    /\ successCount' = successCount
    /\ outcome' = [outcome EXCEPT ![k] = [returned |-> TRUE, success |-> FALSE, error |-> message]]
    /\ pc' = [pc EXCEPT ![k] = "returned"]
    /\ delaySeconds' = delaySeconds
    /\ retryCount' = retryCount

\* (Variant: one retry more.)
ShouldRetryInclusive(message, rc) ==
    includesRateLimitError(message) /\ rc <= RETRY_ATTEMPTS
\* isRateLimitError && retryCount < RETRY_ATTEMPTS
ShouldRetry(message, rc) ==
    includesRateLimitError(message) /\ rc < RETRY_ATTEMPTS

\* (Variant: a linear backoff.)
BackoffLinear(rc) == (rc + 1) * 10
\* Math.pow(2, retryCount) * 10
Backoff(rc) == (2 ^ rc) * 10

\* (Variant: a caught error counted as a failure also when it is retried.)
CatchCounting(k, message) ==
    IF ShouldRetry(message, retryCount[k])
    THEN /\ delaySeconds' = [delaySeconds EXCEPT ![k] = Backoff(retryCount[k])]
         /\ pc' = [pc EXCEPT ![k] = "backoff"]
         /\ failCount' = failCount + 1
         /\ processedCount' = processedCount + 1
         /\ UNCHANGED << retryCount, outcome, successCount >>
    ELSE Fail(k, message)
\* The catch block of processSinglePdf: sleep and retry on a rate-limit
\* error while retries remain, else the PDF has failed.
Catch(k, message) ==
    IF ShouldRetry(message, retryCount[k])
    THEN /\ delaySeconds' = [delaySeconds EXCEPT ![k] = Backoff(retryCount[k])]
         /\ pc' = [pc EXCEPT ![k] = "backoff"]
         /\ UNCHANGED << retryCount, outcome, processedCount, successCount, failCount >>
    ELSE Fail(k, message)

\* A disk operation of PDF k throws.
DiskThrows(k) ==
    /\ diskErrorsLeft > 0
    /\ diskErrorsLeft' = diskErrorsLeft - 1
    /\ \E message \in diskMessages[k] : Catch(k, message)

\* await savePdf(...) is over: the oracle is called with the built-in prompt,
\* or savePdf threw.
SavePdfDone(k) ==
    /\ pc[k] = "savePdf"
    /\ \/ /\ pc' = [pc EXCEPT ![k] = "oracle"]
          /\ UNCHANGED << retryCount, delaySeconds, outcome, processedCount,
                          successCount, failCount, diskErrorsLeft >>
       \/ /\ config.saveProcessedPdfs
          /\ DiskThrows(k)
    /\ UNCHANGED << config, numPdfs, loop, i, timer, extractedData, retryCalls,
                    resultFiles, netsuite, oracleOutcomes, diskMessages, sinkOutcomes, startedIn,
                    validationFailures >>
    /\ UNCHANGED << configVars, pollVars, scriptVars >>

\* await processPdfWithClaude(...) is over: on success parse, validate, make
\* the validation retry and call saveResult; else the PDF has failed.
OracleReturn(k) ==
    /\ pc[k] = "oracle"
    /\ \E oracle \in oracleOutcomes[k], oracle2 \in oracleOutcomes[k] :
         LET result == processPdfWithClaude(oracle, NoPrompt)
             extract == Extract(result, retryCount[k], oracle2)
         IN  /\ validationFailures' = [validationFailures EXCEPT ![k] =
                    IF FailedValidation(result) THEN @ + 1 ELSE @]
             /\ IF result.success
                THEN /\ extractedData' = [extractedData EXCEPT ![k] = extract.extractedData]
                     /\ retryCalls' = [retryCalls EXCEPT ![k] = retryCalls[k] \o extract.retryCalls]
                     /\ pc' = [pc EXCEPT ![k] = "saveResult"]
                     /\ UNCHANGED << retryCount, delaySeconds, outcome,
                                     processedCount, successCount, failCount >>
                ELSE /\ UNCHANGED << extractedData, retryCalls >>
                     /\ Fail(k, result.error)
    /\ UNCHANGED << config, numPdfs, loop, i, timer, resultFiles, netsuite,
                    diskErrorsLeft, oracleOutcomes, diskMessages, sinkOutcomes,
                    startedIn >>
    /\ UNCHANGED << configVars, pollVars, scriptVars >>

\* await saveResult(...) is over: upload if data was extracted, else the PDF
\* is done; or saveResult threw.
SaveResultDone(k) ==
    /\ pc[k] = "saveResult"
    /\ \/ /\ resultFiles' = [resultFiles EXCEPT ![k] =
                IF config.saveResults THEN Append(resultFiles[k], extractedData[k])
                ELSE resultFiles[k]]
          /\ IF ~extractedData[k].isNull
             THEN /\ pc' = [pc EXCEPT ![k] = "upload"]
                  /\ UNCHANGED << retryCount, delaySeconds, outcome,
                                  processedCount, successCount, failCount >>
             ELSE Succeed(k)
          /\ UNCHANGED diskErrorsLeft
       \/ /\ config.saveResults
          /\ DiskThrows(k)
          /\ UNCHANGED resultFiles
    /\ UNCHANGED << config, numPdfs, loop, i, timer, extractedData, retryCalls,
                    netsuite, oracleOutcomes, diskMessages, sinkOutcomes, startedIn,
                    validationFailures >>
    /\ UNCHANGED << configVars, pollVars, scriptVars >>

\* await uploadToNetSuite(...) is over: its result is not looked at.
UploadDone(k) ==
    /\ pc[k] = "upload"
    /\ \E stored \in sinkOutcomes[k] :
         netsuite' = [netsuite EXCEPT ![k] =
            IF config.netsuiteEnabled /\ stored
            THEN Append(netsuite[k], extractedData[k]) ELSE netsuite[k]]
    /\ Succeed(k)
    /\ UNCHANGED << config, numPdfs, loop, i, timer, extractedData, retryCalls,
                    resultFiles, diskErrorsLeft, oracleOutcomes, diskMessages, sinkOutcomes, startedIn,
                    validationFailures >>
    /\ UNCHANGED << configVars, pollVars, scriptVars >>

\* The backoff timer fires: return processSinglePdf(pdf, index, retryCount + 1).
BackoffDone(k) ==
    /\ pc[k] = "backoff"
    /\ retryCount' = [retryCount EXCEPT ![k] = retryCount[k] + 1]
    /\ delaySeconds' = [delaySeconds EXCEPT ![k] = 0]
    /\ extractedData' = [extractedData EXCEPT ![k] = NullData]
    /\ pc' = [pc EXCEPT ![k] = "savePdf"]
    /\ UNCHANGED << config, numPdfs, loop, i, timer, outcome, processedCount,
                    successCount, failCount, retryCalls, resultFiles, netsuite,
                    diskErrorsLeft, oracleOutcomes, diskMessages, sinkOutcomes, startedIn,
                    validationFailures >>
    /\ UNCHANGED << configVars, pollVars, scriptVars >>

Next ==
    \/ StartBatch
    \/ BatchSettled
    \/ DelayDone
    \/ \E k \in Pdfs : SavePdfDone(k)
    \/ \E k \in Pdfs : OracleReturn(k)
    \/ \E k \in Pdfs : SaveResultDone(k)
    \/ \E k \in Pdfs : UploadDone(k)
    \/ \E k \in Pdfs : BackoffDone(k)

Spec == Init /\ [][Next]_vars

\* ======================================================================
\* The config refresh and the matcher (fetchNetSuiteConfigs,
\* matchEmailProcessor): refreshes are started by startPolling and its
\* 10-minute timer, answered by the RESTlet, and emails are matched between
\* them.
\* ======================================================================

\* Largest number of configs in one answer of the RESTlet.
MaxConfigs == 2
\* Largest number of fetchNetSuiteConfigs calls awaiting their answer.
MaxRefreshing == 1

\* No batch is looked at: an email without PDFs.
BatchAtRest ==
    /\ numPdfs = 0
    /\ diskErrorsLeft = 0
    /\ oracleOutcomes = << >>
    /\ diskMessages = << >>
    /\ sinkOutcomes = << >>
    /\ loop = "done"
    /\ i = 0
    /\ timer = 0
    /\ pc = << >>
    /\ retryCount = << >>
    /\ extractedData = << >>
    /\ delaySeconds = << >>
    /\ outcome = << >>
    /\ processedCount = 0
    /\ successCount = 0
    /\ failCount = 0
    /\ retryCalls = << >>
    /\ resultFiles = << >>
    /\ netsuite = << >>
    /\ startedIn = << >>
    /\ validationFailures = << >>

\* The enabled AP Assist Vendor Configuration records, as the RESTlet's GET
\* action=configs returns them (id, emailFrom, emailSubjectContains,
\* claudePrompt or null, folder ids, displayName = vendor - transaction
\* type).  A record may have empty criteria fields.
NetSuiteConfigs ==
    { [id |-> "101", emailFrom |-> << "a", "B" >>,
       emailSubjectContains |-> << "x" >>, claudePrompt |-> "",
       pdfFolderId |-> "1011", jsonFolderId |-> "1012",
       displayName |-> << "A", " ", "-", " ", "C" >>],
      [id |-> "102", emailFrom |-> << "b" >>,
       emailSubjectContains |-> << "X" >>, claudePrompt |-> "VENDOR INVOICE PROMPT",
       pdfFolderId |-> "1021", jsonFolderId |-> "1022",
       displayName |-> << "B", " ", "-", " ", "1" >>],
      [id |-> "103", emailFrom |-> << >>,
       emailSubjectContains |-> << >>, claudePrompt |-> "",
       pdfFolderId |-> "", jsonFolderId |-> "",
       displayName |-> << " ", "-", " " >>] }

\* The lists of n different records.
RECURSIVE ConfigListsOfLen(_)
ConfigListsOfLen(n) ==
    IF n = 0 THEN { << >> }
    ELSE { Append(l, c) : l \in ConfigListsOfLen(n - 1), c \in NetSuiteConfigs }
ConfigLists ==
    { l \in UNION { ConfigListsOfLen(n) : n \in 0 .. MaxConfigs } :
        \A a \in 1 .. Len(l), b \in 1 .. Len(l) : a # b => l[a] # l[b] }

\* What axios.get gives: response.data (null when the body is empty; with or
\* without success and configs), or an error thrown (network, timeout,
\* status 401 or 500).
ResponseData ==
    [isNull : {FALSE}, success : {TRUE}, hasConfigs : {TRUE}, configs : ConfigLists]
    \cup [isNull : {FALSE}, success : {FALSE}, hasConfigs : {TRUE},
          configs : {<< >>}]
    \cup [isNull : {FALSE}, success : BOOLEAN, hasConfigs : {FALSE}, configs : {<< >>}]
    \cup [isNull : {TRUE}, success : {FALSE}, hasConfigs : {FALSE}, configs : {<< >>}]
Responses ==
    [threw : {FALSE}, data : ResponseData]
    \cup [threw : {TRUE},
          data : {[isNull |-> TRUE, success |-> FALSE, hasConfigs |-> FALSE,
                   configs |-> << >>]}]

\* response.data.configs.map(config => ({ ... }))
newProcessors(configs) ==
    [n \in 1 .. Len(configs) |->
        [name |-> replaceNonAlnum(toLowerCase(configs[n].displayName), FALSE),
         enabled |-> TRUE,
         criteria |-> [from |-> configs[n].emailFrom,
                       subjectContains |-> configs[n].emailSubjectContains],
         netsuite |-> [pdfFolderId |-> configs[n].pdfFolderId,
                       jsonFolderId |-> configs[n].jsonFolderId],
         claudePrompt |-> IF configs[n].claudePrompt # ""
                          THEN configs[n].claudePrompt ELSE "marcone",
         configId |-> configs[n].id]]

\* (Variant: any configs array accepted, an empty one too.)
HasConfigsArray(data) ==
    data.success /\ data.hasConfigs
\* response.data.success && response.data.configs && response.data.configs.length > 0
HasConfigs(data) ==
    data.success /\ data.hasConfigs /\ Len(data.configs) > 0

\* (Variant: the new rules added to the list.)
SwapMerging(old, new) == old \o new
\* (Variant: the list changed element by element, seen after its first step.)
SwapFirstElement(old, new) == << new[1] >> \o Tail(old)
\* EMAIL_PROCESSORS = newProcessors; CONFIG.processors = EMAIL_PROCESSORS
Swap(old, new) == new

\* The try block of fetchNetSuiteConfigs once axios.get is over: the rule
\* list it leaves and whether an error was thrown in it (by axios, or by
\* reading success of a null response.data).
TryFetch(list, response) ==
    IF response.threw \/ response.data.isNull
    THEN [threw |-> TRUE, processors |-> list, replaced |-> FALSE,
          newProcessors |-> << >>]
    ELSE IF HasConfigs(response.data)
    THEN LET new == newProcessors(response.data.configs)
         IN  [threw |-> FALSE, replaced |-> TRUE,
              processors |-> Swap(list, new), newProcessors |-> new]
    ELSE [threw |-> FALSE, processors |-> list, replaced |-> FALSE,
          newProcessors |-> << >>]

\* fetchNetSuiteConfigs from its await on: the catch logs whatever the try
\* block threw, so the promise is never rejected.
fetchNetSuiteConfigs(list, response) ==
    LET tried == TryFetch(list, response)
    IN  [processors |-> tried.processors, replaced |-> tried.replaced,
         newProcessors |-> tried.newProcessors, rejected |-> FALSE]

\* The emails matched: senders and subjects over a small alphabet in both
\* cases, an email without sender text (its address is used), and a Marcone
\* credit email.
MarconeEmail ==
    [fromText |->
         << "'", "M", "a", "r", "c", "o", "n", "e", "'", " ", "<", "N",
            "O", "-", "R", "E", "P", "L", "I", "E", "S", "@",
            "m", "a", "r", "c", "o", "n", "e", ".", "c", "o",
            "m", ">" >>,
     fromValueAddress |-> << >>,
     subject |->
         << "F", "W", ":", " ", "C", "r", "e", "d", "i", "t", "s", " ",
            "p", "r", "o", "c", "e", "s", "s", "e", "d", " ",
            "b", "y", " ", "M", "a", "r", "c", "o", "n", "e",
            " ", "f", "o", "r", " ", "2", "6", "8", "4", "0",
            "0", "0", " ", "-", " ", "1", "1", "/", "0", "5" >>]
Emails ==
    [fromText : { << "c", "A", "b" >>, << "c" >> },
     fromValueAddress : { << "z" >> },
     subject : { << "x" >>, << "y", "X", "x" >> }]
    \cup { [fromText |-> << >>, fromValueAddress |-> << "a", "b" >>,
            subject |-> << "X" >>],
           MarconeEmail }

\* The process has started: EMAIL_PROCESSORS is the hardcoded list, with the
\* Marcone rule enabled or not (MARCONE_ENABLED).
ConfigInit ==
    /\ config \in Configs
    /\ \E enabled \in BOOLEAN :
         /\ processors = EMAIL_PROCESSORS(enabled)
         /\ complete = EMAIL_PROCESSORS(enabled)
    /\ refreshing = 0
    /\ lastRefresh = NoRefresh
    /\ lastMatch = NoMatchYet
    /\ firstCall = NoFirstCall
    /\ BatchAtRest
    /\ PollAtRest
    /\ ScriptsAtRest

\* fetchNetSuiteConfigs is called (by startPolling, or by its timer, which
\* runs only if NetSuite is enabled) and runs to its await: it returns at
\* once if NetSuite is not enabled, else the GET is sent.
RefreshStart ==
    /\ refreshing < MaxRefreshing
    /\ IF config.netsuiteEnabled
       THEN /\ refreshing' = refreshing + 1
            /\ UNCHANGED lastRefresh
       ELSE /\ refreshing' = refreshing
            /\ lastRefresh' = [NoRefresh EXCEPT !.kind = "disabled"]
    /\ UNCHANGED << processors, lastMatch, complete, firstCall, batchVars,
                    pollVars, scriptVars >>

\* axios.get is over: the rest of fetchNetSuiteConfigs runs, without another
\* await.
RefreshResponse(response) ==
    /\ refreshing > 0
    /\ refreshing' = refreshing - 1
    /\ LET fetched == fetchNetSuiteConfigs(processors, response)
       IN  /\ processors' = fetched.processors
           /\ complete' = IF fetched.replaced THEN fetched.newProcessors
                          ELSE complete
           /\ lastRefresh' = [kind |-> "answered", rejected |-> fetched.rejected,
                              response |-> response]
    /\ UNCHANGED << lastMatch, firstCall, batchVars, pollVars, scriptVars >>

\* The body handler of an email calls matchEmailProcessor(parsed) and returns
\* if it gives null (processEmail, lines 595-600).
Match(email) ==
    /\ LET processor == matchEmailProcessor(processors, email)
       IN  lastMatch' =
              [matched |-> TRUE, email |-> email, observed |-> processors,
               completeThen |-> complete, result |-> processor,
               skipped |-> processor.isNull]
    /\ firstCall' = NoFirstCall
    /\ UNCHANGED << processors, refreshing, lastRefresh, complete, batchVars,
                    pollVars, scriptVars >>

ConfigNext ==
    \/ RefreshStart
    \/ \E response \in Responses : RefreshResponse(response)
    \/ \E email \in Emails : Match(email)

ConfigSpec == ConfigInit /\ [][ConfigNext]_vars

\* ----------------------------------------------------------------------
\* The rule that matched and the extraction: after the match the body handler
\* filters the PDF attachments and processSinglePdf makes its first oracle
\* call with three arguments (pdf.content, pdf.filename, subject), so the
\* customPrompt parameter of processPdfWithClaude takes its default, null.
\* ----------------------------------------------------------------------
FirstCall ==
    /\ lastMatch.matched
    /\ ~lastMatch.result.isNull
    /\ ~firstCall.made
    /\ \E oracle \in PlainOracleOutcomes :
         firstCall' = [made |-> TRUE,
                       prompt |-> processPdfWithClaude(oracle, NoPrompt).prompt]
    /\ UNCHANGED << processors, refreshing, lastRefresh, lastMatch, complete,
                    batchVars, pollVars, scriptVars >>

ExtractionNext ==
    \/ ConfigNext
    \/ FirstCall

ExtractionSpec == ConfigInit /\ [][ExtractionNext]_vars

\* ======================================================================
\* The poll cycles (startPolling, checkForNewEmails, processEmail): the
\* initial check and the checks of the poll timer run on the one mailbox
\* connection; each fetches the unseen messages one after the other, and the
\* body handler of a fetched message runs the batch loop over its PDFs.
\* Here the batch of a handler is one await (Promise.allSettled of up to
\* BATCH_SIZE pipelines, all in flight until it resolves).
\* ======================================================================

\* Largest number of PDF attachments of an email.
MaxEmailPdfs == 4

\* The checkForNewEmails calls looked at: the initial check and the check of
\* the first tick of the poll timer.  The mailbox holds one or two unread
\* messages.
Cycles == {1, 2}
MailboxSizes == {1, 2}
Msgs == 1 .. Len(mailbox)

\* What simpleParser gives for a message: a Marcone credit email or an email
\* no rule matches, with no PDF attachment, one, a full batch, or the most.
OtherEmail ==
    [fromText |-> << "c" >>, fromValueAddress |-> << "z" >>, subject |-> << "x" >>]
PollEmails == { MarconeEmail, OtherEmail }
PdfCounts == { 0, 1, BATCH_SIZE, MaxEmailPdfs }

\* No body handler is running for a message: it has not been called, or it
\* has returned.
HandlerNone == [pc |-> "none", pdfAttachments |-> 0, i |-> 0]

\* CONFIG.polling.markAsRead: MARK_AS_READ !== 'false'
markAsRead == TRUE

\* The connection is ready: no check has been started, the messages of the
\* mailbox are unseen.
PollInit ==
    /\ \E n \in MailboxSizes : mailbox = [m \in 1 .. n |-> [seen |-> FALSE]]
    /\ cyclePc = [c \in Cycles |-> "idle"]
    /\ results = [c \in Cycles |-> << >>]
    /\ idx = [c \in Cycles |-> 0]
    /\ emailPromise = [c \in Cycles |-> "none"]
    /\ handler = [c \in Cycles |-> [m \in Msgs |-> HandlerNone]]
    /\ process = Running
    /\ config = [saveProcessedPdfs |-> FALSE, saveResults |-> FALSE,
                 netsuiteEnabled |-> FALSE]
    /\ BatchAtRest
    /\ ConfigAtRest
    /\ ScriptsAtRest

\* The unseen messages in mailbox order: what imap.search(['UNSEEN']) gives.
Unseen == SelectSeq([m \in Msgs |-> m], LAMBDA m : ~mailbox[m].seen)

\* The pipelines a handler has in flight: the slice of its awaited batch.
InFlightOf(h) ==
    IF h.pc # "batch" THEN 0
    ELSE IF h.pdfAttachments - h.i < BATCH_SIZE THEN h.pdfAttachments - h.i
    ELSE BATCH_SIZE

\* The pipelines in flight in the process: those of the batches the body
\* handlers of all messages of all checkForNewEmails calls are awaiting.
RECURSIVE SumInFlight(_)
SumInFlight(S) ==
    IF S = {} THEN 0
    ELSE LET x == CHOOSE y \in S : TRUE
         IN  InFlightOf(handler[x[1]][x[2]]) + SumInFlight(S \ {x})
InFlight == SumInFlight(Cycles \X Msgs)

\* (Variant: a tick that starts a check only if the check before it did not
\* fail.)
TickUnlessRejected(c) ==
    /\ process.state = "running"
    /\ cyclePc[c] = "idle"
    /\ c > 1 => cyclePc[c - 1] \notin {"idle", "rejected"}
    /\ cyclePc' = [cyclePc EXCEPT ![c] = "openBox"]
    /\ UNCHANGED << process, mailbox, results, idx, emailPromise, handler, batchVars,
                    configVars, scriptVars >>

\* The initial check (imap 'ready') or a tick of setInterval: checkForNewEmails
\* is called, whatever the earlier calls are doing, and calls imap.openBox.
Tick(c) ==
    /\ process.state = "running"
    /\ cyclePc[c] = "idle"
    /\ c > 1 => cyclePc[c - 1] # "idle"
    /\ cyclePc' = [cyclePc EXCEPT ![c] = "openBox"]
    /\ UNCHANGED << process, mailbox, results, idx, emailPromise, handler, batchVars,
                    configVars, scriptVars >>

\* The callback of imap.openBox: reject on an error, else imap.search.
OpenBoxDone(c) ==
    /\ process.state = "running"
    /\ cyclePc[c] = "openBox"
    /\ \E err \in BOOLEAN :
         cyclePc' = [cyclePc EXCEPT ![c] = IF err THEN "rejected" ELSE "search"]
    /\ UNCHANGED << process, mailbox, results, idx, emailPromise, handler, batchVars,
                    configVars, scriptVars >>

\* The callback of imap.search: reject on an error, resolve if nothing was
\* found, else enter the for loop: processEmail(results[0]) calls imap.fetch.
SearchDone(c) ==
    /\ process.state = "running"
    /\ cyclePc[c] = "search"
    /\ \E err \in BOOLEAN :
         IF err
         THEN /\ cyclePc' = [cyclePc EXCEPT ![c] = "rejected"]
              /\ UNCHANGED << results, idx, emailPromise >>
         ELSE IF Unseen = << >>
         THEN /\ cyclePc' = [cyclePc EXCEPT ![c] = "resolved"]
              /\ UNCHANGED << results, idx, emailPromise >>
         ELSE /\ cyclePc' = [cyclePc EXCEPT ![c] = "fetch"]
              /\ results' = [results EXCEPT ![c] = Unseen]
              /\ idx' = [idx EXCEPT ![c] = 1]
              /\ emailPromise' = [emailPromise EXCEPT ![c] = "fetching"]
    /\ UNCHANGED << process, mailbox, handler, batchVars, configVars, scriptVars >>

\* The fetch emits 'message' and its 'body': the async body handler is called
\* and runs to its await of simpleParser; the server marks the message seen.
FetchMessage(c) ==
    /\ process.state = "running"
    /\ cyclePc[c] = "fetch"
    /\ emailPromise[c] = "fetching"
    /\ emailPromise' = [emailPromise EXCEPT ![c] = "handling"]
    /\ handler' = [handler EXCEPT ![c][results[c][idx[c]]].pc = "parse"]
    /\ mailbox' = [mailbox EXCEPT ![results[c][idx[c]]].seen = @ \/ markAsRead]
    /\ UNCHANGED << process, cyclePc, results, idx, batchVars, configVars, scriptVars >>

\* The promise of the awaited processEmail is settled: the for loop of
\* checkForNewEmails goes on with the next seqno or resolves; a rejection
\* rejects the call.
Settle(c, rejected) ==
    IF rejected
    THEN /\ cyclePc' = [cyclePc EXCEPT ![c] = "rejected"]
         /\ results' = [results EXCEPT ![c] = << >>]
         /\ idx' = [idx EXCEPT ![c] = 0]
         /\ emailPromise' = [emailPromise EXCEPT ![c] = "none"]
    ELSE IF idx[c] < Len(results[c])
    THEN /\ idx' = [idx EXCEPT ![c] = idx[c] + 1]
         /\ emailPromise' = [emailPromise EXCEPT ![c] = "fetching"]
         /\ UNCHANGED << cyclePc, results >>
    ELSE /\ cyclePc' = [cyclePc EXCEPT ![c] = "resolved"]
         /\ results' = [results EXCEPT ![c] = << >>]
         /\ idx' = [idx EXCEPT ![c] = 0]
         /\ emailPromise' = [emailPromise EXCEPT ![c] = "none"]

\* When the fetch emits 'end': after the message, whatever its body handler
\* is doing.
FetchEnds(c) ==
    emailPromise[c] = "handling"

\* The fetch emits 'end' (resolve) or 'error' (reject).
FetchEnd(c) ==
    /\ process.state = "running"
    /\ cyclePc[c] = "fetch"
    /\ \/ FetchEnds(c) /\ Settle(c, FALSE)
       \/ Settle(c, TRUE)
    /\ UNCHANGED << process, mailbox, handler, batchVars, configVars, scriptVars >>

\* simpleParser is over in the body handler of message m of call c: on an
\* error the catch calls reject, which rejects the call if it still awaits
\* this processEmail; else the email is matched, and if a rule matches and it
\* has PDF attachments the first batch is started.
ParseDone(c, m) ==
    /\ process.state = "running"
    /\ handler[c][m].pc = "parse"
    /\ \/ /\ handler' = [handler EXCEPT ![c][m] = HandlerNone]
          /\ IF cyclePc[c] = "fetch" /\ emailPromise[c] = "handling"
                /\ results[c][idx[c]] = m
             THEN Settle(c, TRUE)
             ELSE UNCHANGED << cyclePc, results, idx, emailPromise >>
       \/ /\ \E parsed \in PollEmails :
               LET processor == matchEmailProcessor(processors, parsed)
               IN  \E pdfAttachments \in PdfCounts :
                     handler' = [handler EXCEPT ![c][m] =
                        IF processor.isNull \/ pdfAttachments = 0
                        THEN HandlerNone
                        ELSE [pc |-> "batch", pdfAttachments |-> pdfAttachments,
                              i |-> 0]]
          /\ UNCHANGED << cyclePc, results, idx, emailPromise >>
    /\ UNCHANGED << process, mailbox, batchVars, configVars, scriptVars >>

\* Promise.allSettled of the handler's batch resolves: wait BATCH_DELAY_MS if
\* PDFs remain, else the handler returns.
HandlerBatchSettled(c, m) ==
    /\ process.state = "running"
    /\ handler[c][m].pc = "batch"
    /\ handler' = [handler EXCEPT ![c][m] =
          IF @.i + BATCH_SIZE < @.pdfAttachments
          THEN [@ EXCEPT !.pc = "delay"]
          ELSE HandlerNone]
    /\ UNCHANGED << process, mailbox, cyclePc, results, idx, emailPromise, batchVars,
                    configVars, scriptVars >>

\* The delay between batches is over: i += BATCH_SIZE, the next batch starts.
HandlerDelayDone(c, m) ==
    /\ process.state = "running"
    /\ handler[c][m].pc = "delay"
    /\ handler' = [handler EXCEPT ![c][m] =
          [@ EXCEPT !.pc = "batch", !.i = @ + BATCH_SIZE]]
    /\ UNCHANGED << process, mailbox, cyclePc, results, idx, emailPromise, batchVars,
                    configVars, scriptVars >>

\* The process exits: the promises, timers and handlers are gone with it,
\* whatever they were waiting for; the mailbox stays as it is.
Exit(code) ==
    /\ process' = Exited(code, InFlight)
    /\ cyclePc' = [c \in Cycles |-> "idle"]
    /\ results' = [c \in Cycles |-> << >>]
    /\ idx' = [c \in Cycles |-> 0]
    /\ emailPromise' = [c \in Cycles |-> "none"]
    /\ handler' = [c \in Cycles |-> [m \in Msgs |-> HandlerNone]]
    /\ UNCHANGED << mailbox, batchVars, configVars, scriptVars >>

\* SIGINT: the handler logs, calls imap.end() and process.exit(0).
Sigint ==
    /\ process.state = "running"
    /\ Exit(0)

\* The connection emits 'error': the handler logs and calls process.exit(1).
ImapError ==
    /\ process.state = "running"
    /\ Exit(1)

PollNext ==
    \/ \E c \in Cycles : Tick(c)
    \/ \E c \in Cycles : OpenBoxDone(c)
    \/ \E c \in Cycles : SearchDone(c)
    \/ \E c \in Cycles : FetchMessage(c)
    \/ \E c \in Cycles : FetchEnd(c)
    \/ \E c \in Cycles, m \in Msgs : ParseDone(c, m)
    \/ \E c \in Cycles, m \in Msgs : HandlerBatchSettled(c, m)
    \/ \E c \in Cycles, m \in Msgs : HandlerDelayDone(c, m)
    \/ Sigint
    \/ ImapError

PollSpec == PollInit /\ [][PollNext]_vars

\* ======================================================================
\* validateBillNumbers on its own: processSinglePdf has parsed the response
\* text into extractedData and validates it (lines 658-695).
\* ======================================================================

\* Largest number of line items of an extraction.
MaxItems == 3

\* Bill numbers as the oracle may extract them: missing or empty, 8 digits,
\* too short, too long, 8 characters that are not all digits.
BillNumbers ==
    { << >>,
      << "6", "6", "8", "1", "1", "0", "2", "6" >>,
      << "6", "6", "8", "1", "1", "0" >>,
      << "6", "6", "8", "1", "1", "0", "2", "6", "7" >>,
      << "N", "6", "6", "8", "1", "1", "0", "2" >> }
LineItems == [nardaNumber : {"NF"}, originalBillNumber : BillNumbers]
RECURSIVE LineItemListsOfLen(_)
LineItemListsOfLen(n) ==
    IF n = 0 THEN { << >> }
    ELSE { Append(l, item) : l \in LineItemListsOfLen(n - 1), item \in LineItems }
LineItemLists == UNION { LineItemListsOfLen(n) : n \in 0 .. MaxItems }

\* The objects JSON.parse may give: with a lineItems array, or without the
\* field, whatever the other fields are.
ExtractionResults ==
    [isCreditMemo : {TRUE}, invoiceNumber : {"67718694"}, lineItems : LineItemLists]
    \cup [isCreditMemo : BOOLEAN, invoiceNumber : {"", "67718694", "N/A"},
          lineItems : {<< >>}]
    \cup [isCreditMemo : BOOLEAN, invoiceNumber : {"", "67718694", "N/A"}]

\* The branch taken on the validation result (lines 659, 692): the retry with
\* the enhanced prompt, going on with invalid data, or neither.
\* (Variant: the first call always retries.)
ValidationBranchOnFirstCall(validation, rc) ==
    IF rc = 0 THEN "retry"
    ELSE IF ~validation.valid THEN "proceed"
    ELSE "valid"
ValidationBranch(validation, rc) ==
    IF ~validation.valid /\ rc = 0 THEN "retry"
    ELSE IF ~validation.valid THEN "proceed"
    ELSE "valid"

ValidateInit ==
    /\ validateCall \in [extractedData : ExtractionResults,
                          retryCount : 0 .. RETRY_ATTEMPTS]
    /\ validationResult = NotValidated
    /\ oracleResponse = NoResponse
    /\ parsedResponse = NotParsed
    /\ config = [saveProcessedPdfs |-> FALSE, saveResults |-> FALSE,
                 netsuiteEnabled |-> FALSE]
    /\ BatchAtRest
    /\ ConfigAtRest
    /\ PollAtRest
    /\ ValidationAtRest
    /\ RestletAtRest
    /\ RetryAtRest

\* const validationResult = validateBillNumbers(extractedData), and the if
\* on it.
Validate ==
    /\ ~validationResult.called
    /\ LET result == validateBillNumbers(validateCall.extractedData)
       IN  validationResult' =
              [called |-> TRUE, result |-> result,
               branch |-> ValidationBranch(result, validateCall.retryCount)]
    /\ UNCHANGED << validateCall, oracleResponse, parsedResponse, batchVars,
                    configVars, pollVars, validationVars, restletVars,
                    retryVars >>

ValidateNext ==
    Validate

ValidateSpec == ValidateInit /\ [][ValidateNext]_vars

\* ======================================================================
\* The JSON extraction from a response text: the one of processSinglePdf
\* (email-poller.js, lines 647-655) and the one of the scripts that test the
\* prompt (transaction_validation_scheduled.js, lines 592-603).  Texts are
\* sequences of characters.
\* ======================================================================

\* Largest number of members of the object asked for.
MaxMembers == 2

\* The grave accent, the character of a fence (one element of a text, as
\* every character is).
Backtick == "grave accent"

\* JSON values: a number, a string (of characters that need no escape), an
\* object with its members in order.
JsonNumber(digit) == [type |-> "number", chars |-> << digit >>, members |-> << >>]
JsonString(chars) == [type |-> "string", chars |-> chars, members |-> << >>]
JsonObject(members) == [type |-> "object", chars |-> << >>, members |-> members]

\* The values of the members: a number, strings without and with a closing
\* brace, a bold marker or a fence in them, an empty and a nested object.
MemberValues ==
    { JsonNumber("1"),
      JsonString(<< "x" >>),
      JsonString(<< "}" >>),
      JsonString(<< "x", "}", "*", "*", "y" >>),
      JsonString(<< Backtick, Backtick, Backtick >>),
      JsonObject(<< >>),
      JsonObject(<< [key |-> << "b" >>, value |-> JsonNumber("1")] >>) }
MemberKeys == << << "a" >>, << "c" >>, << "d" >> >>
RECURSIVE MemberListsOfLen(_)
MemberListsOfLen(n) ==
    IF n = 0 THEN { << >> }
    ELSE { Append(l, [key |-> MemberKeys[n], value |-> v]) :
             l \in MemberListsOfLen(n - 1), v \in MemberValues }
JsonObjects ==
    { JsonObject(members) :
        members \in UNION { MemberListsOfLen(n) : n \in 0 .. MaxMembers } }

\* JSON.stringify(value), without indentation.
RECURSIVE stringify(_)
RECURSIVE stringifyMembers(_, _)
stringifyMembers(members, n) ==
    IF n > Len(members) THEN << >>
    ELSE (IF n > 1 THEN << "," >> ELSE << >>)
         \o << "\"" >> \o members[n].key \o << "\"", ":" >>
         \o stringify(members[n].value)
         \o stringifyMembers(members, n + 1)
stringify(value) ==
    IF value.type = "object"
    THEN << "{" >> \o stringifyMembers(value.members, 1) \o << "}" >>
    ELSE IF value.type = "string"
    THEN << "\"" >> \o value.chars \o << "\"" >>
    ELSE value.chars

\* What the oracle may add after the object, and the fence it may put around
\* its answer.
Suffixes ==
    { << >>,
      << "\n", "\n", " ", "t", "r", "a", "i", "l", "i", "n", "g", " ", "n", "o",
         "t", "e" >>,
      << "\n", "\n", "*", "*", "b", "o", "l", "d", " ", "n", "o", "t", "e", "*",
         "*" >> }
FenceOpen == << Backtick, Backtick, Backtick, "j", "s", "o", "n" >>
FenceClose == << Backtick, Backtick, Backtick >>
Fenced(text) == FenceOpen \o << "\n" >> \o text \o << "\n" >> \o FenceClose
ResponseText(object, suffix, fenced) ==
    IF fenced THEN Fenced(stringify(object) \o suffix)
    ELSE stringify(object) \o suffix

\* String.prototype.indexOf(t, from): the 0-based index, or -1.
indexOf(str, t, from) ==
    LET found == { q \in from .. (Len(str) - Len(t)) :
                     SubSeq(str, q + 1, q + Len(t)) = t }
    IN  IF found = {} THEN 0 - 1
        ELSE CHOOSE q \in found : \A r \in found : q <= r

\* String.prototype.substring(a, b): an index below 0 is 0, one above the
\* length is the length, and the two are swapped if a > b.
Clamp(n, len) == IF n < 0 THEN 0 ELSE IF n > len THEN len ELSE n
substring(str, a, b) ==
    LET ca == Clamp(a, Len(str))
        cb == Clamp(b, Len(str))
    IN  IF ca <= cb THEN SubSeq(str, ca + 1, cb) ELSE SubSeq(str, cb + 1, ca)

\* String.prototype.trim, and the characters \\s matches.
WhiteSpace == { " ", "\n", "\t", "\r" }
trim(str) ==
    LET black == { q \in 1 .. Len(str) : str[q] \notin WhiteSpace }
    IN  IF black = {} THEN << >>
        ELSE SubSeq(str, CHOOSE q \in black : \A r \in black : q <= r,
                         CHOOSE q \in black : \A r \in black : q >= r)

\* JSON.parse(text): the value whose JSON text this is, white space around it
\* allowed, or a SyntaxError.  (Of the texts parsed here, only those of the
\* objects asked for are JSON texts: a proper prefix of the text of an object
\* is not one, nor is such a text with other characters around it.)
JsonTexts == { [value |-> o, text |-> stringify(o)] : o \in JsonObjects }
JSONparse(text) ==
    LET t == trim(text)
        values == { jt \in JsonTexts : jt.text = t }
    IN  IF values = {} THEN SyntaxError
        ELSE [threw |-> FALSE, value |-> (CHOOSE jt \in values : TRUE).value]

\* processSinglePdf, lines 647-655: the text between ```json and the next
\* ``` if the response holds ```json, the whole response otherwise, parsed.
parsePollerResponse(analysis) ==
    LET startIdx == indexOf(analysis, FenceOpen, 0) + 7
        endIdx == indexOf(analysis, FenceClose, startIdx)
        jsonStr == IF includes(analysis, FenceOpen)
                   THEN trim(substring(analysis, startIdx, endIdx))
                   ELSE analysis
    IN  JSONparse(jsonStr)

\* result.replace(/```json\n|\n```/g, ''): every fence marker removed.
RECURSIVE removeFences(_)
removeFences(str) ==
    IF str = << >> THEN << >>
    ELSE IF Len(str) >= 8 /\ SubSeq(str, 1, 8) = FenceOpen \o << "\n" >>
    THEN removeFences(SubSeq(str, 9, Len(str)))
    ELSE IF Len(str) >= 4 /\ SubSeq(str, 1, 4) = << "\n" >> \o FenceClose
    THEN removeFences(SubSeq(str, 5, Len(str)))
    ELSE << Head(str) >> \o removeFences(Tail(str))

\* The lookahead (?=\s*$|\s*\n\n|\s*\*\*) at the 1-based position q: after
\* some white space comes the end of the text, an empty line or **.
LookAhead(str, q) ==
    \E k \in 0 .. (Len(str) - q + 1) :
        /\ \A r \in q .. (q + k - 1) : str[r] \in WhiteSpace
        /\ \/ q + k > Len(str)
           \/ /\ q + k + 1 <= Len(str)
              /\ \/ str[q + k] = "\n" /\ str[q + k + 1] = "\n"
                 \/ str[q + k] = "*" /\ str[q + k + 1] = "*"

\* jsonStr.match(/\{[\s\S]*?\}(?=...)/): from the leftmost { that has one,
\* the nearest } after it at which the lookahead holds.
NearestEnd(ends) == CHOOSE e \in ends : \A r \in ends : e <= r
EndsFrom(str, b) ==
    { e \in (b + 1) .. Len(str) : str[e] = "}" /\ LookAhead(str, e + 1) }
jsonMatch(str) ==
    LET starts == { b \in 1 .. Len(str) : str[b] = "{" /\ EndsFrom(str, b) # {} }
        start == CHOOSE b \in starts : \A r \in starts : b <= r
    IN  IF starts = {} THEN [isNull |-> TRUE, match |-> << >>]
        ELSE [isNull |-> FALSE,
              match |-> SubSeq(str, start, NearestEnd(EndsFrom(str, start)))]

\* The scripts, lines 592-603: the fence markers removed, the match of the
\* regular expression if there is one, parsed.
parseScriptResponse(result) ==
    LET stripped == IF includes(result, FenceOpen) THEN removeFences(result)
                    ELSE result
        jsonStr == IF jsonMatch(stripped).isNull THEN stripped
                   ELSE jsonMatch(stripped).match
    IN  JSONparse(jsonStr)

\* The oracle has answered with the text of an object, a suffix after it, in
\* a fence or not.
ParseInit ==
    /\ \E object \in JsonObjects, suffix \in Suffixes, fenced \in BOOLEAN :
         oracleResponse = [object |-> object, suffix |-> suffix,
                           fenced |-> fenced,
                           text |-> ResponseText(object, suffix, fenced)]
    /\ parsedResponse = NotParsed
    /\ validateCall = NoValidateCall
    /\ validationResult = NotValidated
    /\ config = [saveProcessedPdfs |-> FALSE, saveResults |-> FALSE,
                 netsuiteEnabled |-> FALSE]
    /\ BatchAtRest
    /\ ConfigAtRest
    /\ PollAtRest
    /\ ValidationAtRest
    /\ RestletAtRest
    /\ RetryAtRest

\* The response text goes through the JSON extraction.
Parse ==
    /\ ~parsedResponse.called
    /\ parsedResponse' = [called |-> TRUE,
                          poller |-> parsePollerResponse(oracleResponse.text),
                          script |-> parseScriptResponse(oracleResponse.text)]
    /\ UNCHANGED << oracleResponse, validateCall, validationResult, batchVars,
                    configVars, pollVars, validationVars, restletVars,
                    retryVars >>

ParseNext ==
    Parse

ParseSpec == ParseInit /\ [][ParseNext]_vars

\* ======================================================================
\* The transaction validation script (transaction_validation_scheduled.js):
\* an execution finds the transactions not yet validated, asks the oracle
\* for a report on each, flags and marks the transaction, and sums up.
\* ======================================================================

\* Largest number of transactions, and of executions of the script.
MaxTransactions == 2
MaxExecutions == 2

Txs == 1 .. MaxTransactions

\* A transaction AP Assist created: custbody_ap_assist_validated,
\* custbody_ap_assist_validation_pass, custbody_ap_assist_validation_fail.
NewTransaction ==
    [validated |-> FALSE, validationPass |-> FALSE, validationFail |-> FALSE]

\* The reports of the oracle: one that passes and approves, one that
\* rejects, one that approves and says that nothing critical was found, one
\* with none of the words looked for.
ValidationReports ==
    { << "P", "a", "s", "s", ".", " ", "A", "p", "p", "r", "o", "v", "e",
         "d", "." >>,
      << "R", "E", "J", "E", "C", "T", ":", " ", "c", "r", "i", "t", "i",
         "c", "a", "l", " ", "e", "r", "r", "o", "r" >>,
      << "P", "A", "S", "S", " ", "-", " ", "a", "p", "p", "r", "o", "v",
         "e", ".", " ", "N", "o", " ", "c", "r", "i", "t", "i", "c", "a",
         "l", " ", "i", "s", "s", "u", "e" >>,
      << "A", "m", "o", "u", "n", "t", "s", " ", "d", "i", "f", "f", "e",
         "r" >> }

\* What claudeAPI.callClaude gives: a failure, or a report.
ClaudeResults ==
    { [success |-> FALSE, analysis |-> << >>] }
    \cup [success : {TRUE}, analysis : ValidationReports]

\* The searches of findTransactionsToValidate: the transactions whose
\* custbody_ap_assist_validated is F, in the order of the searches.
findTransactionsToValidate ==
    SelectSeq([t \in Txs |-> t], LAMBDA t : ~transactions[t].validated)

\* validationReport.toLowerCase().indexOf(...) !== -1
isPassedOf(validationReport) ==
    /\ includes(toLowerCase(validationReport), << "p", "a", "s", "s" >>)
    /\ includes(toLowerCase(validationReport), << "a", "p", "p", "r", "o", "v", "e" >>)
hasCriticalIssuesOf(validationReport) ==
    \/ includes(toLowerCase(validationReport),
                << "c", "r", "i", "t", "i", "c", "a", "l" >>)
    \/ includes(toLowerCase(validationReport), << "r", "e", "j", "e", "c", "t" >>)

\* flagTransactionWithIssues and markAsValidated: the record loaded, its
\* fields set and saved; an error of load or save is logged and swallowed.
flagTransactionWithIssues(rec, saved) ==
    IF saved THEN [rec EXCEPT !.validationFail = TRUE] ELSE rec
markAsValidated(rec, isPassed, saved) ==
    IF saved THEN [rec EXCEPT !.validated = TRUE, !.validationPass = isPassed]
    ELSE rec

\* validateTransaction: the result it returns and the record as it leaves it.
validateTransaction(rec, recordId, claudeResult, autoFlag, flagSaved, markSaved) ==
    LET isPassed == isPassedOf(claudeResult.analysis)
        hasCriticalIssues == hasCriticalIssuesOf(claudeResult.analysis)
        flagged == IF hasCriticalIssues /\ autoFlag
                   THEN flagTransactionWithIssues(rec, flagSaved)
                   ELSE rec
    IN  IF claudeResult.success
        THEN [result |-> [success |-> TRUE, recordId |-> recordId,
                          isPassed |-> isPassed,
                          hasCriticalIssues |-> hasCriticalIssues],
              record |-> markAsValidated(flagged, isPassed, markSaved)]
        ELSE [result |-> [success |-> FALSE, recordId |-> recordId,
                          isPassed |-> FALSE, hasCriticalIssues |-> FALSE],
              record |-> rec]

\* generateSummaryReport: the counts over the results.
Count(tests) ==
    Cardinality({ n \in 1 .. Len(tests) : tests[n] })
generateSummaryReport(validationResults) ==
    LET filter(field) == [n \in 1 .. Len(validationResults) |->
                            validationResults[n][field]]
        passed == [n \in 1 .. Len(validationResults) |->
                     validationResults[n].success /\ validationResults[n].isPassed]
        failed == [n \in 1 .. Len(validationResults) |->
                     validationResults[n].success /\ ~validationResults[n].isPassed]
        errors == [n \in 1 .. Len(validationResults) |->
                     ~validationResults[n].success]
    IN  [totalValidated |-> Len(validationResults),
         passed |-> Count(passed),
         failed |-> Count(failed),
         errors |-> Count(errors),
         criticalIssues |-> Count(filter("hasCriticalIssues"))]

\* AP Assist has created the transactions; the script has not run yet.
ValidationInit ==
    /\ transactions = [t \in Txs |-> NewTransaction]
    /\ execution = NoExecution
    /\ executions = 0
    /\ config = [saveProcessedPdfs |-> FALSE, saveResults |-> FALSE,
                 netsuiteEnabled |-> FALSE]
    /\ BatchAtRest
    /\ ConfigAtRest
    /\ PollAtRest
    /\ PureAtRest
    /\ RestletAtRest
    /\ RetryAtRest

\* The scheduler runs execute(): the parameters are read and the transactions
\* to validate are searched; execute returns if there are none.
Execute ==
    /\ execution.pc \in {"idle", "done"}
    /\ executions < MaxExecutions
    /\ executions' = executions + 1
    /\ \E autoFlagIssues \in BOOLEAN :
         execution' =
            [pc |-> IF findTransactionsToValidate = << >> THEN "done" ELSE "loop",
             autoFlagIssues |-> autoFlagIssues,
             transactionsToValidate |-> findTransactionsToValidate,
             i |-> 0, validationResults |-> << >>, summary |-> NoSummary]
    /\ UNCHANGED << transactions, batchVars, configVars, pollVars, pureVars,
                    restletVars, retryVars >>

\* One turn of the for loop with enough governance left: validateTransaction
\* on transactionsToValidate[i], its result pushed.
ValidateTransaction ==
    /\ execution.pc = "loop"
    /\ execution.i < Len(execution.transactionsToValidate)
    /\ \E claudeResult \in ClaudeResults, flagSaved \in BOOLEAN, markSaved \in BOOLEAN :
         LET recordId == execution.transactionsToValidate[execution.i + 1]
             validated == validateTransaction(transactions[recordId], recordId,
                              claudeResult, execution.autoFlagIssues,
                              flagSaved, markSaved)
         IN  /\ transactions' = [transactions EXCEPT ![recordId] = validated.record]
             /\ execution' = [execution EXCEPT
                    !.i = @ + 1,
                    !.validationResults = Append(@, validated.result)]
    /\ UNCHANGED << executions, batchVars, configVars, pollVars, pureVars,
                    restletVars, retryVars >>

\* The for loop ends, at the end of the list or on the break for low
\* governance: generateSummaryReport, and execute returns.
Summarise ==
    /\ execution.pc = "loop"
    /\ execution' = [execution EXCEPT
          !.pc = "done",
          !.summary = generateSummaryReport(execution.validationResults)]
    /\ UNCHANGED << transactions, executions, batchVars, configVars, pollVars,
                    pureVars, restletVars, retryVars >>

ValidationNext ==
    \/ Execute
    \/ ValidateTransaction
    \/ Summarise

ValidationSpec == ValidationInit /\ [][ValidationNext]_vars

\* ======================================================================
\* The receiver RESTlet (node_pdf_receiver_restlet.js, and the same post in
\* netsuite_marcone_pdf_receiver_restlet.js): a POST saves the PDF and, if
\* extracted data came with it, the JSON, in the file cabinet.
\* ======================================================================

\* Largest number of POST requests served.
MaxPosts == 2

\* The request bodies: null, or an object with or without pdfBase64, a
\* pdfFilename (none, with the extension in lower or upper case, without
\* it), extractedData or not, and the two folder ids or not.
NullBody ==
    [isNull |-> TRUE, pdfBase64 |-> "", pdfFilename |-> << >>,
     hasExtractedData |-> FALSE, pdfFolderId |-> "", jsonFolderId |-> ""]
RequestBodies ==
    { NullBody }
    \cup [isNull : {FALSE}, pdfBase64 : {"", "JVBERi0xLjQK"},
          pdfFilename : { << >>, << "m", ".", "p", "d", "f" >>,
                          << "m", ".", "P", "D", "F" >>, << "m" >> },
          hasExtractedData : BOOLEAN,
          pdfFolderId : {""}, jsonFolderId : {""}]
    \cup [isNull : {FALSE}, pdfBase64 : {"JVBERi0xLjQK"},
          pdfFilename : { << "m", ".", "p", "d", "f" >> },
          hasExtractedData : BOOLEAN,
          pdfFolderId : {"12345"}, jsonFolderId : {"", "12346"}]

\* requestBody.pdfFilename.replace(/\.pdf$/i, '')
baseNameOf(pdfFilename) ==
    IF /\ Len(pdfFilename) >= 4
       /\ toLowerCase(SubSeq(pdfFilename, Len(pdfFilename) - 3, Len(pdfFilename)))
             = << ".", "p", "d", "f" >>
    THEN SubSeq(pdfFilename, 1, Len(pdfFilename) - 4)
    ELSE pdfFilename

\* a || b on strings
OrElse(a, b) == IF a # "" THEN a ELSE b

\* A response of post, and a file as file.create(...).save() leaves it.
Failure(error) == [success |-> FALSE, error |-> error, pdfFileId |-> 0, jsonFileId |-> 0]
Success(pdfFileId, jsonFileId) ==
    [success |-> TRUE, error |-> "", pdfFileId |-> pdfFileId, jsonFileId |-> jsonFileId]
File(timestamp, baseName, extension, folder) ==
    [timestamp |-> timestamp, baseName |-> baseName, extension |-> extension,
     folder |-> folder]

\* post(requestBody): the response returned and the files saved, given the
\* time and whether the file cabinet accepts the PDF and the JSON.  files:
\* the file cabinet before the request.
post(requestBody, parameters, files, timestamp, pdfSaved, jsonSaved) ==
    LET pdfFolderId == OrElse(requestBody.pdfFolderId, parameters.pdfFolder)
        jsonFolderId == OrElse(requestBody.jsonFolderId, parameters.jsonFolder)
        baseName == baseNameOf(requestBody.pdfFilename)
        pdfFile == File(timestamp, baseName, ".pdf", pdfFolderId)
        jsonFile == File(timestamp, baseName, ".json", jsonFolderId)
        pdfFileId == Len(files) + 1
        jsonFileId == Len(files) + 2
    IN  IF requestBody.isNull
        THEN [response |-> Failure("TypeError"), files |-> files]
        ELSE IF pdfFolderId = "" \/ jsonFolderId = ""
        THEN [response |-> Failure("Folder IDs not provided"), files |-> files]
        ELSE IF requestBody.pdfBase64 = "" \/ requestBody.pdfFilename = << >>
        THEN [response |-> Failure("Missing required fields"), files |-> files]
        ELSE IF ~pdfSaved
        THEN [response |-> Failure("save failed"), files |-> files]
        ELSE IF ~requestBody.hasExtractedData
        THEN [response |-> Success(pdfFileId, 0), files |-> Append(files, pdfFile)]
        ELSE IF ~jsonSaved
        THEN [response |-> Failure("save failed"), files |-> Append(files, pdfFile)]
        ELSE [response |-> Success(pdfFileId, jsonFileId),
              files |-> Append(Append(files, pdfFile), jsonFile)]

\* The RESTlet is deployed, with the folder parameters set or not.
RestletInit ==
    /\ scriptParameters \in { [pdfFolder |-> "", jsonFolder |-> ""],
                               [pdfFolder |-> "777", jsonFolder |-> "778"] }
    /\ fileCabinet = << >>
    /\ posts = << >>
    /\ config = [saveProcessedPdfs |-> FALSE, saveResults |-> FALSE,
                 netsuiteEnabled |-> FALSE]
    /\ BatchAtRest
    /\ ConfigAtRest
    /\ PollAtRest
    /\ PureAtRest
    /\ ValidationAtRest
    /\ RetryAtRest

\* A POST request is served, from its first line to its return.  The time
\* of a request is its place among the requests.
Post(requestBody) ==
    /\ Len(posts) < MaxPosts
    /\ \E pdfSaved \in BOOLEAN, jsonSaved \in BOOLEAN :
         LET timestamp == Len(posts) + 1
             served == post(requestBody, scriptParameters, fileCabinet,
                            timestamp, pdfSaved, jsonSaved)
         IN  /\ fileCabinet' = served.files
             /\ posts' = Append(posts, [requestBody |-> requestBody,
                                        timestamp |-> timestamp,
                                        response |-> served.response])
    /\ UNCHANGED << scriptParameters, batchVars, configVars, pollVars, pureVars,
                    validationVars, retryVars >>

RestletNext ==
    \E requestBody \in RequestBodies : Post(requestBody)

RestletSpec == RestletInit /\ [][RestletNext]_vars

\* ======================================================================
\* The retry script (retry_claude_json_scheduled.js): an execution finds the
\* PDFs in the retry folder, and for each asks the oracle again, saves the
\* JSON and moves the PDF to the processed folder.
\* ======================================================================

\* Largest number of PDFs put in the retry folder, and of executions.
MaxRetryPdfs == 2
MaxRetryExecutions == 2

\* custscript_retry_max_files || 10
maxFiles == 10

RetryPdfs == 1 .. MaxRetryPdfs

\* findPDFsInRetryFolder: the first maxFiles PDF files of the retry folder.
findPDFsInRetryFolder ==
    LET found == SelectSeq([f \in RetryPdfs |-> f],
                           LAMBDA f : pdfFolder[f] = "retry")
    IN  IF Len(found) > maxFiles THEN SubSeq(found, 1, maxFiles) ELSE found

\* movePDFToProcessedFolder: the file loaded, its folder set and saved; an
\* error is logged and the original id returned.
movePDFToProcessedFolder(folder, moved) ==
    IF moved THEN "processed" ELSE folder

\* processPDFFile: what it returns, whether it saved a JSON file, and the
\* folder it leaves the PDF in, given what file.load, the oracle, the parsing
\* of its answer, the saving of the JSON and the move do.
processPDFFile(id, folder, loaded, claudeSuccess, parsed, saved, moved) ==
    IF ~loaded \/ ~claudeSuccess \/ ~parsed \/ ~saved
    THEN [result |-> [id |-> id, success |-> FALSE], json |-> 0, folder |-> folder]
    ELSE [result |-> [id |-> id, success |-> TRUE], json |-> 1,
          folder |-> movePDFToProcessedFolder(folder, moved)]

\* PDFs were put in the retry folder; the script has not run yet.
RetryInit ==
    /\ pdfFolder = [f \in RetryPdfs |-> "retry"]
    /\ jsonFiles = [f \in RetryPdfs |-> 0]
    /\ retryExecution = NoRetryExecution
    /\ retryExecutions = 0
    /\ retryResults = << >>
    /\ config = [saveProcessedPdfs |-> FALSE, saveResults |-> FALSE,
                 netsuiteEnabled |-> FALSE]
    /\ BatchAtRest
    /\ ConfigAtRest
    /\ PollAtRest
    /\ PureAtRest
    /\ ValidationAtRest
    /\ RestletAtRest

\* The scheduler runs execute(): the vendor configuration is loaded and the
\* retry folder searched; execute returns if it is empty.
RetryExecute ==
    /\ retryExecution.pc \in {"idle", "done"}
    /\ retryExecutions < MaxRetryExecutions
    /\ retryExecutions' = retryExecutions + 1
    /\ retryExecution' =
          [pc |-> IF findPDFsInRetryFolder = << >> THEN "done" ELSE "loop",
           pdfFiles |-> findPDFsInRetryFolder, i |-> 0, processedCount |-> 0,
           errorCount |-> 0]
    /\ UNCHANGED << pdfFolder, jsonFiles, retryResults, batchVars, configVars,
                    pollVars, pureVars, validationVars, restletVars >>

\* One turn of the for loop with enough governance left: processPDFFile on
\* pdfFiles[i], counted as processed or as an error.
ProcessPDFFile ==
    /\ retryExecution.pc = "loop"
    /\ retryExecution.i < Len(retryExecution.pdfFiles)
    /\ \E loaded \in BOOLEAN, claudeSuccess \in BOOLEAN, parsed \in BOOLEAN,
          saved \in BOOLEAN, moved \in BOOLEAN :
         LET id == retryExecution.pdfFiles[retryExecution.i + 1]
             processed == processPDFFile(id, pdfFolder[id], loaded, claudeSuccess,
                                         parsed, saved, moved)
         IN  /\ pdfFolder' = [pdfFolder EXCEPT ![id] = processed.folder]
             /\ jsonFiles' = [jsonFiles EXCEPT ![id] = @ + processed.json]
             /\ retryResults' = Append(retryResults, processed.result)
             /\ retryExecution' = [retryExecution EXCEPT
                    !.i = @ + 1,
                    !.processedCount = IF processed.result.success THEN @ + 1 ELSE @,
                    !.errorCount = IF processed.result.success THEN @ ELSE @ + 1]
    /\ UNCHANGED << retryExecutions, batchVars, configVars, pollVars, pureVars,
                    validationVars, restletVars >>

\* The for loop ends, at the end of the list or on the break for low
\* governance, and execute logs the counts and returns.
RetryComplete ==
    /\ retryExecution.pc = "loop"
    /\ retryExecution' = [retryExecution EXCEPT !.pc = "done"]
    /\ UNCHANGED << pdfFolder, jsonFiles, retryExecutions, retryResults, batchVars,
                    configVars, pollVars, pureVars, validationVars, restletVars >>

RetryNext ==
    \/ RetryExecute
    \/ ProcessPDFFile
    \/ RetryComplete

RetrySpec == RetryInit /\ [][RetryNext]_vars

\* ----------------------------------------------------------------- claims

\* The processSinglePdf calls made for PDF k (the first one and the retries).
Attempts(k) == IF pc[k] = "notStarted" THEN 0 ELSE retryCount[k] + 1

\* What was persisted for PDF k: the result file and the RESTlet's record.
Persisted(k) ==
    { resultFiles[k][n] : n \in 1 .. Len(resultFiles[k]) }
    \cup { netsuite[k][n] : n \in 1 .. Len(netsuite[k]) }

FailsValidation(data) == ~data.isNull /\ ~validateBillNumbers(data).valid

\* C1: when the first extraction attempt of a document returns parseable JSON
\* that fails the bill-number validation, the oracle is called exactly once
\* more for it, with the corrective preamble and the validator's reason
\* followed by the extraction instructions.
C1_CorrectiveCallAfterFirstInvalid ==
    \A k \in Pdfs :
        (pc[k] = "saveResult" /\ retryCount[k] = 0 /\ validationFailures[k] = 1)
        => /\ Len(retryCalls[k]) = 1
           /\ retryCalls[k][1].prompt.critical
           /\ retryCalls[k][1].prompt.reason # << >>
           /\ retryCalls[k][1].prompt.instructions = MarconePrompt.instructions

C3_AtMostOneCorrectiveCall ==
    \A k \in Pdfs : Len(retryCalls[k]) <= 1

\* A document that failed validation in two calls of the pipeline (the second
\* one a transport retry) and is done.
C3_Witness ==
    \E k \in Pdfs :
        /\ pc[k] = "returned"
        /\ retryCount[k] >= 1
        /\ validationFailures[k] >= 2
        /\ FailsValidation(extractedData[k])
        /\ Len(retryCalls[k]) <= 1

\* C4: a transport retry does not consume the validation retry: a document
\* whose extraction first fails validation in a call reached after transport
\* retries still gets its corrective oracle call.
C4_ValidationRetryAfterTransportRetry ==
    \A k \in Pdfs :
        (pc[k] = "saveResult" /\ retryCount[k] >= 1 /\ validationFailures[k] = 1
            /\ (FailsValidation(extractedData[k]) \/ extractedData[k].attempt = 2))
        => Len(retryCalls[k]) = 1

\* C5: a failure of the oracle call whose message contains rate_limit_error is
\* retried while attempts remain instead of the item being marked failed: an
\* item is reported failed with the oracle's rate-limit error only when its
\* retries are used up.
C5_OracleRateLimitRetried ==
    \A k \in Pdfs :
        (outcome[k].returned /\ ~outcome[k].success
            /\ outcome[k].error \in OracleErrorMessages
            /\ includesRateLimitError(outcome[k].error))
        => retryCount[k] >= RETRY_ATTEMPTS

\* C6 as claimed: a document is attempted at most 3 times in total.
C6_AtMostThreeAttempts ==
    \A k \in Pdfs : Attempts(k) <= 3

\* C6 as amended: a document whose processing raises a rate-limit error on
\* every attempt is attempted at most 4 times in total (the first attempt and
\* RETRY_ATTEMPTS = 3 retries), and it is reported failed with that error only
\* after the 4th attempt.
C6_AtMostFourAttempts ==
    \A k \in Pdfs :
        /\ Attempts(k) <= 4
        /\ (outcome[k].returned /\ ~outcome[k].success
                /\ outcome[k].error \in DiskErrorMessages
                /\ includesRateLimitError(outcome[k].error))
           => Attempts(k) = 4

\* A document reported failed after 4 attempts that all raised a rate-limit
\* error.
C6_Witness ==
    \E k \in Pdfs :
        /\ outcome[k].returned /\ ~outcome[k].success
        /\ includesRateLimitError(outcome[k].error)
        /\ Attempts(k) = 4
        /\ diskErrorsLeft = MaxDiskErrors - 4

Group(k) == ((k - 1) \div 3) + 1
GroupMembers(g) == { k \in Pdfs : startedIn[k] = << g >> }

\* C8: the batch loop forms ceil(N/3) groups, consecutive slices of at most 3
\* attachments; every attachment is started in exactly one group and yields
\* exactly one terminal outcome.
C8_GroupsPartitionAttachments ==
    /\ \A k \in Pdfs :
          /\ Len(startedIn[k]) <= 1
          /\ pc[k] # "notStarted" => startedIn[k] = << Group(k) >>
          /\ pc[k] = "notStarted" => startedIn[k] = << >>
    /\ \A g \in 1 .. numPdfs : Cardinality(GroupMembers(g)) <= 3
    /\ processedCount = Cardinality({ k \in Pdfs : outcome[k].returned })
    /\ loop = "done" =>
          /\ \A k \in Pdfs : Len(startedIn[k]) = 1 /\ outcome[k].returned
          /\ processedCount = numPdfs
          /\ { startedIn[k][1] : k \in Pdfs } =
                1 .. (IF numPdfs % 3 = 0 THEN numPdfs \div 3 ELSE numPdfs \div 3 + 1)
          /\ numPdfs = 7 =>
                /\ Cardinality(GroupMembers(1)) = 3
                /\ Cardinality(GroupMembers(2)) = 3
                /\ Cardinality(GroupMembers(3)) = 1

\* Seven attachments processed in groups of 3, 3 and 1, one of them failed.
C8_Witness ==
    /\ loop = "done"
    /\ numPdfs = 7
    /\ startedIn[7] = << 3 >>
    /\ failCount = 1
    /\ successCount = 6

\* C9: no item of a later group is started before every item of the earlier
\* groups has returned (an item sleeping in a backoff has not), and the items
\* of one group are started together.
C9_GroupsSequential ==
    \A a \in Pdfs, b \in Pdfs :
        /\ (Group(a) < Group(b) /\ pc[b] # "notStarted") => pc[a] = "returned"
        /\ Group(a) = Group(b) => (pc[a] = "notStarted" <=> pc[b] = "notStarted")

\* An item of the first group went through a backoff and has returned, and
\* the second group runs with its items in different positions.
C9_Witness ==
    \E a \in Pdfs, b \in Pdfs, c \in Pdfs :
        /\ Group(a) = 1 /\ Group(b) = 2 /\ Group(c) = 2
        /\ retryCount[a] >= 1 /\ pc[a] = "returned"
        /\ pc[b] = "oracle" /\ pc[c] = "upload"

\* C10: a failed item never aborts the batch: its failure is a returned
\* outcome (the promise is never rejected), the loop can always go on, and
\* when the loop ends every item has been processed.
C10_FailureNeverAbortsBatch ==
    /\ \A k \in Pdfs :
          /\ pc[k] # "rejected"
          /\ pc[k] = "returned" <=> outcome[k].returned
    /\ failCount = Cardinality({ k \in Pdfs : outcome[k].returned /\ ~outcome[k].success })
    /\ loop # "done" => ENABLED Next
    /\ loop = "done" => \A k \in Pdfs : outcome[k].returned

\* An item of the first group failed and the items after it, in its group and
\* in the later groups, have all been processed.
C10_Witness ==
    \E k \in Pdfs :
        /\ Group(k) = 1 /\ k < 3
        /\ outcome[k].returned /\ ~outcome[k].success
        /\ numPdfs = 7
        /\ loop = "done"
        /\ \A j \in Pdfs : j > k => outcome[j].returned /\ outcome[j].success

\* C11: the running counters never decrease, processed = succeeded + failed
\* in every state, every item is counted exactly once, when it returns (an
\* item sleeping before a transport retry is not counted, and a returned item
\* is not counted again), and processed is the number of PDF attachments when
\* the last batch has settled.
C11_CountersCountEachItemOnce ==
    /\ [](/\ processedCount = successCount + failCount
          /\ successCount =
                Cardinality({ k \in Pdfs : pc[k] = "returned" /\ outcome[k].success })
          /\ failCount =
                Cardinality({ k \in Pdfs : pc[k] = "returned" /\ ~outcome[k].success })
          /\ loop = "done" => processedCount = numPdfs)
    /\ [][/\ processedCount' >= processedCount
          /\ successCount' >= successCount
          /\ failCount' >= failCount
          /\ processedCount' - processedCount =
                Cardinality({ k \in Pdfs : pc[k] # "returned" /\ pc'[k] = "returned" })
          /\ processedCount' - processedCount <= 1]_vars

\* Seven attachments all counted, six succeeded and one failed, counted once
\* although its pipeline ran three times (two transport retries).
C11_Witness ==
    /\ loop = "done"
    /\ numPdfs = 7
    /\ processedCount = 7
    /\ successCount = 6
    /\ failCount = 1
    /\ \E k \in Pdfs : retryCount[k] >= 2 /\ ~outcome[k].success

\* Whether the response text of the last oracle call of PDF k did not parse:
\* the call succeeded (the pipeline went on to saveResult) and extractedData
\* stayed null.
Unparseable(k) ==
    /\ extractedData[k].isNull
    /\ \/ pc[k] = "saveResult"
       \/ pc[k] = "returned" /\ outcome[k].success

\* C15: an item whose oracle response could not be parsed into a JSON object
\* is marked failed: it is never returned with success and counted as
\* succeeded.
C15_UnparseableMarkedFailed ==
    \A k \in Pdfs :
        (pc[k] = "returned" /\ Unparseable(k))
        => /\ ~outcome[k].success
           /\ failCount >= 1

\* C16: an item whose write to the document store failed is marked failed:
\* an item returned with success, with the upload enabled and data extracted,
\* was stored by the RESTlet.
C16_SinkFailureMarkedFailed ==
    \A k \in Pdfs :
        (pc[k] = "returned" /\ outcome[k].success
            /\ config.netsuiteEnabled /\ ~extractedData[k].isNull)
        => netsuite[k] # << >>

\* ------------------------------------------- claims on the prompt selection

\* The prompt a rule carries when a config refresh loaded a custom prompt text
\* for it ('marcone' names the built-in prompt).
HasCustomPrompt(processor) ==
    ~processor.isNull /\ processor.processor.claudePrompt # "marcone"

\* C21: when the rule matched for an email carries a custom prompt text, the
\* first extraction call for a PDF of that email sends that rule's prompt to
\* the oracle, not the built-in prompt.
C21_RulePromptSent ==
    (firstCall.made /\ HasCustomPrompt(lastMatch.result))
    => firstCall.prompt.instructions = lastMatch.result.processor.claudePrompt

\* ----------------------------------------------- claims on the validation

\* A bill number that is a string of exactly 8 ASCII digits.
EightDigits(billNumber) ==
    /\ Len(billNumber) = 8
    /\ \A j \in 1 .. 8 :
          billNumber[j] \in {"0", "1", "2", "3", "4", "5", "6", "7", "8", "9"}

\* The 1-based positions of the line items validated whose bill number is
\* not one.
BadLines ==
    IF "lineItems" \in DOMAIN validateCall.extractedData
    THEN { n \in 1 .. Len(validateCall.extractedData.lineItems) :
            ~EightDigits(validateCall.extractedData.lineItems[n].originalBillNumber) }
    ELSE {}

\* C22: validateBillNumbers returns valid = true when every line item's bill
\* number is a string of exactly 8 digits, and otherwise valid = false with
\* the invalid items being exactly the entries whose bill number is missing,
\* empty or not 8 digits, by 0-based index, in order, each once.
C22_ValidateBillNumbers ==
    validationResult.called =>
        LET result == validationResult.result
        IN  /\ result.valid <=> BadLines = {}
            /\ ~result.valid =>
                  /\ Len(result.invalidItems) = Cardinality(BadLines)
                  /\ \A m \in 1 .. Len(result.invalidItems) :
                        result.invalidItems[m].index + 1 \in BadLines
                  /\ \A m \in 1 .. Len(result.invalidItems) - 1 :
                        result.invalidItems[m].index < result.invalidItems[m + 1].index

\* Three line items, the first and the last invalid (one of them 8 characters
\* that are not all digits): indices 0 and 2 are reported.
C22_Witness ==
    /\ validationResult.called
    /\ "lineItems" \in DOMAIN validateCall.extractedData
    /\ Len(validateCall.extractedData.lineItems) = 3
    /\ validateCall.extractedData.lineItems[1].originalBillNumber
          = << "N", "6", "6", "8", "1", "1", "0", "2" >>
    /\ EightDigits(validateCall.extractedData.lineItems[2].originalBillNumber)
    /\ validateCall.extractedData.lineItems[3].originalBillNumber = << >>
    /\ ~validationResult.result.valid
    /\ Len(validationResult.result.invalidItems) = 2
    /\ validationResult.result.invalidItems[1].index = 0
    /\ validationResult.result.invalidItems[2].index = 2

\* C23: an extraction result whose line-items list is absent or empty always
\* validates as valid, whatever its other fields, and never enters the
\* validation retry.
C23_NoLineItemsIsValid ==
    (/\ validationResult.called
     /\ \/ "lineItems" \notin DOMAIN validateCall.extractedData
        \/ validateCall.extractedData.lineItems = << >>)
    => /\ validationResult.result.valid
       /\ validationResult.branch = "valid"

\* An extraction without the lineItems field, not a credit memo, validated on
\* the call with retryCount 0.
C23_Witness ==
    /\ validationResult.called
    /\ "lineItems" \notin DOMAIN validateCall.extractedData
    /\ ~validateCall.extractedData.isCreditMemo
    /\ validateCall.retryCount = 0
    /\ validationResult.result.valid

\* --------------------------------------------- claims on the JSON parsing

\* C24: for any JSON object O and any suffix S of "", "\n\n trailing note",
\* "\n\n**bold note**", the response parser applied to JSON.stringify(O) + S,
\* with or without a ```json fence around it, yields exactly O.
C24_ParserYieldsObject ==
    parsedResponse.called =>
        /\ ~parsedResponse.poller.threw
        /\ parsedResponse.poller.value = oracleResponse.object
        /\ ~parsedResponse.script.threw
        /\ parsedResponse.script.value = oracleResponse.object

\* ------------------------------------------------ claims on the poll cycles

\* A checkForNewEmails call is in its open/search/fetch sequence on the
\* connection.
OnConnection(c) == cyclePc[c] \in {"openBox", "search", "fetch"}

\* PDFs of the message of a body handler are not yet terminal: a batch is
\* awaited, or PDFs remain after the delay.
PdfsPending(h) == h.pc \in {"batch", "delay"}

\* C12: at every moment at most BATCH_SIZE = 3 item pipelines are in flight
\* in the process, across all emails of a poll cycle and across the ticks of
\* the poll timer.
C12_AtMostGroupSizeInFlight ==
    InFlight <= BATCH_SIZE

\* C13: poll cycles never overlap: at no time are two checkForNewEmails calls
\* in their open/search/fetch sequence on the shared connection.
C13_PollCyclesNeverOverlap ==
    \A c, d \in Cycles : (OnConnection(c) /\ OnConnection(d)) => c = d

\* C14: within one poll cycle the messages are processed sequentially and to
\* completion: the for loop is at message k+1 only when every PDF of the
\* messages before it is terminal, and the call has resolved only when every
\* PDF of every message is terminal.
C14_MessagesSequentialToCompletion ==
    \A c \in Cycles :
        /\ \A n \in 1 .. Len(results[c]) :
               n < idx[c] => ~PdfsPending(handler[c][results[c][n]])
        /\ cyclePc[c] = "resolved"
               => \A m \in Msgs : ~PdfsPending(handler[c][m])

\* C25: an error of one poll cycle (openBox or search failing, the fetch or
\* the processing of an email raising) rejects that checkForNewEmails call,
\* whose .catch logs it: the step leaves the process running, and the next
\* tick of the poll timer still starts a new cycle.
C25_CycleErrorIsContained ==
    /\ [](\A c \in Cycles :
            (/\ process.state = "running"
             /\ cyclePc[c] = "rejected"
             /\ c + 1 \in Cycles
             /\ cyclePc[c + 1] = "idle")
            => ENABLED Tick(c + 1))
    /\ [][\A c \in Cycles :
            (cyclePc[c] # "rejected" /\ cyclePc'[c] = "rejected")
            => process'.state = "running"]_vars

\* The first check was rejected after it had fetched a message, and the check
\* of the next tick is searching the mailbox.
C25_Witness ==
    /\ process.state = "running"
    /\ cyclePc[1] = "rejected"
    /\ \E m \in Msgs : mailbox[m].seen
    /\ cyclePc[2] = "search"

\* C26: on the shutdown signal a group in flight reaches its terminal states
\* before the process exits: the process never exits with an item pipeline
\* (an oracle call, a sink write) outstanding.
C26_ShutdownWaitsForGroup ==
    (process.state = "exited" /\ process.code = 0) => process.inFlight = 0

\* ------------------------------------- claims on the validation script

\* C27: every transaction for which validateTransaction returned success =
\* true has its validated flag set afterwards (so that a later execution
\* does not select it again); one whose oracle call failed keeps validated
\* = F.
C27_ValidatedOnceMarked ==
    \A n \in 1 .. Len(execution.validationResults) :
        LET result == execution.validationResults[n]
        IN  result.success => transactions[result.recordId].validated

\* C28: no transaction has both custbody_ap_assist_validation_pass and
\* custbody_ap_assist_validation_fail set, and no result counted as passed
\* is also counted in criticalIssues.
C28_NeverPassedAndFailed ==
    /\ \A t \in Txs :
          ~(transactions[t].validationPass /\ transactions[t].validationFail)
    /\ \A n \in 1 .. Len(execution.validationResults) :
          ~(/\ execution.validationResults[n].success
            /\ execution.validationResults[n].isPassed
            /\ execution.validationResults[n].hasCriticalIssues)

\* --------------------------------------------- claims on the RESTlet

\* The files in the file cabinet a request saved: those with its timestamp.
FilesOf(served) ==
    { n \in 1 .. Len(fileCabinet) : fileCabinet[n].timestamp = served.timestamp }

\* C29: a POST that returned success = false has left no file in the file
\* cabinet, and one that returned success = true with extracted data has
\* left the PDF and the JSON, under the same timestamp and base name.
C29_FailureLeavesNoFile ==
    \A k \in 1 .. Len(posts) :
        /\ ~posts[k].response.success => FilesOf(posts[k]) = {}
        /\ (posts[k].response.success /\ posts[k].requestBody.hasExtractedData)
           => \E a, b \in FilesOf(posts[k]) :
                 /\ fileCabinet[a].extension = ".pdf"
                 /\ fileCabinet[b].extension = ".json"
                 /\ fileCabinet[a].baseName = fileCabinet[b].baseName

\* ------------------------------------------ claims on the retry script

\* The calls of processPDFFile for a PDF that returned success = true.
Successes(f) ==
    { n \in 1 .. Len(retryResults) :
        retryResults[n].id = f /\ retryResults[n].success }

\* C30: a PDF for which processPDFFile returned success = true is no longer
\* in the retry folder and has one JSON file, never a second one; a PDF for
\* which it only returned success = false has no JSON file and is still in
\* the retry folder.
C30_SuccessLeavesRetryFolder ==
    \A f \in RetryPdfs :
        /\ Successes(f) # {} => (pdfFolder[f] # "retry" /\ jsonFiles[f] = 1)
        /\ Successes(f) = {} => (pdfFolder[f] = "retry" /\ jsonFiles[f] = 0)

\* ---------------------------------------- claims on the refresh and matcher

\* The sender of an email, and whether a string occurs in another, with or
\* without regard to the case of letters.
Sender(email) ==
    IF email.fromText # << >> THEN email.fromText ELSE email.fromValueAddress
SameLetter(a, b) ==
    \/ a = b
    \/ \E n \in 1 .. Len(UpperCaseLetters) :
          {a, b} = {UpperCaseLetters[n], LowerCaseLetters[n]}
Occurs(t, s) ==
    \E p \in 0 .. Len(s) : /\ p + Len(t) <= Len(s)
                           /\ \A j \in 1 .. Len(t) : s[p + j] = t[j]
OccursIgnoringCase(t, s) ==
    \E p \in 0 .. Len(s) : /\ p + Len(t) <= Len(s)
                           /\ \A j \in 1 .. Len(t) : SameLetter(s[p + j], t[j])
RuleMatches(rule, email) ==
    /\ rule.enabled
    /\ OccursIgnoringCase(rule.criteria.from, Sender(email))
    /\ Occurs(rule.criteria.subjectContains, email.subject)

\* The step in which a fetchNetSuiteConfigs call gets its answer, and what
\* the answer was.
RefreshAnswered == refreshing' = refreshing - 1
RefreshSucceeded(response) ==
    /\ ~response.threw /\ ~response.data.isNull
    /\ response.data.success /\ response.data.hasConfigs
    /\ Len(response.data.configs) > 0

\* C17: a refresh that succeeds with K > 0 rules replaces the whole rule list
\* by exactly the returned rules in the returned order, and a rule that was in
\* the list before and is not in the response matches no email afterwards.
C17_RefreshReplacesWholeList ==
    [][(RefreshAnswered /\ RefreshSucceeded(lastRefresh'.response))
        => LET configs == lastRefresh'.response.data.configs
           IN  /\ Len(processors') = Len(configs)
               /\ \A n \in 1 .. Len(configs) :
                     /\ processors'[n].configId = configs[n].id
                     /\ processors'[n].enabled
                     /\ processors'[n].criteria.from = configs[n].emailFrom
                     /\ processors'[n].criteria.subjectContains =
                            configs[n].emailSubjectContains
                     /\ processors'[n].netsuite.pdfFolderId = configs[n].pdfFolderId
                     /\ processors'[n].netsuite.jsonFolderId = configs[n].jsonFolderId
               /\ \A email \in Emails :
                     LET now == matchEmailProcessor(processors', email).processor
                     IN  \A n \in 1 .. Len(processors) :
                            (\A m \in 1 .. Len(configs) :
                                 configs[m].id # processors[n].configId)
                            => now # processors[n]]_vars

\* An email matched a rule, and a later refresh that succeeded with two
\* rules removed that rule: the email now matches another rule or none.
C17_Witness ==
    /\ lastRefresh.kind = "answered"
    /\ RefreshSucceeded(lastRefresh.response)
    /\ Len(processors) = 2
    /\ lastMatch.matched /\ ~lastMatch.result.isNull
    /\ \A n \in 1 .. Len(processors) : processors[n] # lastMatch.result.processor
    /\ matchEmailProcessor(processors, lastMatch.email).processor
          # lastMatch.result.processor

C19_MatcherSeesCompleteList ==
    /\ processors = complete
    /\ lastMatch.matched => lastMatch.observed = lastMatch.completeThen

\* An email was matched against a list of two rules, which a refresh then
\* replaced by two other rules while the next refresh is already under way.
C19_Witness ==
    /\ lastMatch.matched
    /\ Len(lastMatch.observed) = 2
    /\ Len(processors) = 2
    /\ lastMatch.observed # processors
    /\ lastMatch.observed[1] # processors[1]
    /\ lastRefresh.kind = "answered"
    /\ refreshing = 1

====
